---- MODULE Spec2Model ----
(***************************************************************************)
(* A model of the delivery rule-evaluation engine of test-delivery-date:   *)
(* the cart delay calculator, the date service, the city cutoff service,   *)
(* the slot availability service, the checkout validator, the delivery     *)
(* test route, and the configuration service with the city pages that      *)
(* write the database through it.                                          *)
(*                                                                         *)
(* The engine is a library of pure functions.  For them the state of the   *)
(* model is the call in progress: which function was called (op), with     *)
(* which arguments (args), what it returned (ret) and whether it raised    *)
(* (exc).  The objects a call is given and allocates are in heap, the rows *)
(* of the City and TimeSlot tables are in db, and inflight counts the      *)
(* create requests that have passed the name check and not yet inserted.   *)
(* JavaScript strings are sequences of one-character strings, so that      *)
(* trimming, lower-casing, pattern matching, parsing and the comparison of *)
(* strings are computed character by character, as the code does.          *)
(***************************************************************************)
EXTENDS Integers, Sequences, FiniteSets, TLC

VARIABLES op, args, ret, exc, heap, db, inflight

vars == <<op, args, ret, exc, heap, db, inflight>>

(***************************************************************************)
(* Bounds of the model.                                                    *)
(***************************************************************************)
MaxTagParts == 3
MaxTags == 2
MaxProducts == 2
MaxDelay == 3
MaxRules == 2
MaxWindow == 3
MaxDisabled == 2
MaxDateRules == 2
MaxPhoneParts == 3
MaxRecords == 2

(***************************************************************************)
(* Characters and strings.                                                 *)
(***************************************************************************)
\* The characters of the model in increasing order of their UTF-16 code.
CharsByCode ==
  <<"\t", " ", "-", "/", "0", "1", "2", "3", "4", "5", "6", "7", "8", "9", ":",
    "A", "C", "D", "E", "K", "L", "Y", "a", "c", "d", "e", "k", "l", "x", "y">>

CharSet == {CharsByCode[i] : i \in 1..Len(CharsByCode)}

CodeOfChar ==
  [c \in CharSet |-> CHOOSE i \in 1..Len(CharsByCode) : CharsByCode[i] = c]

CharCode(c) == CodeOfChar[c]

DigitChars == {"0", "1", "2", "3", "4", "5", "6", "7", "8", "9"}

DigitValue(c) == CharCode(c) - CharCode("0")

WhiteSpace == {" ", "\t"}

UpperChars == <<"A", "C", "D", "E", "K", "L", "Y">>
LowerChars == <<"a", "c", "d", "e", "k", "l", "y">>

LowerOfChar ==
  [c \in CharSet |->
     IF \E i \in 1..Len(UpperChars) : UpperChars[i] = c
     THEN LowerChars[CHOOSE i \in 1..Len(UpperChars) : UpperChars[i] = c]
     ELSE c]

ToLowerChar(c) == LowerOfChar[c]

\* String.prototype.toLowerCase
ToLowerCase(s) == [i \in 1..Len(s) |-> ToLowerChar(s[i])]

RECURSIVE TrimStart(_)
TrimStart(s) ==
  IF s # <<>> /\ Head(s) \in WhiteSpace THEN TrimStart(Tail(s)) ELSE s

RECURSIVE TrimEnd(_)
TrimEnd(s) ==
  IF s # <<>> /\ s[Len(s)] \in WhiteSpace
  THEN TrimEnd(SubSeq(s, 1, Len(s) - 1))
  ELSE s

\* String.prototype.trim
Trim(s) == TrimEnd(TrimStart(s))

\* parseInt(s, 10) of a string that starts with a digit: the value of its
\* longest prefix of digits, accumulated from the left.
RECURSIVE ParseIntFrom(_, _)
ParseIntFrom(s, acc) ==
  IF s = <<>> \/ Head(s) \notin DigitChars
  THEN acc
  ELSE ParseIntFrom(Tail(s), 10 * acc + DigitValue(Head(s)))

ParseInt(s) == ParseIntFrom(s, 0)

\* The test of s.startsWith(w) at position 1, ignoring case (the i flag).
StartsWithI(s, w) ==
  /\ Len(s) >= Len(w)
  /\ \A i \in 1..Len(w) : ToLowerChar(s[i]) = ToLowerChar(w[i])

Drop(s, n) == SubSeq(s, n + 1, Len(s))

AllDigits(s) == \A i \in 1..Len(s) : s[i] \in DigitChars

Max2(a, b) == IF a >= b THEN a ELSE b

RECURSIVE Concat(_)
Concat(ss) == IF ss = <<>> THEN <<>> ELSE Head(ss) \o Concat(Tail(ss))

SeqsUpTo(S, n) == UNION {[1..k -> S] : k \in 0..n}

(***************************************************************************)
(* JavaScript values whose type the code tests.                            *)
(***************************************************************************)
JsString(s) == [type |-> "string", chars |-> s]
JsArray(xs) == [type |-> "array", items |-> xs]
JsNull == [type |-> "null"]
JsUndefined == [type |-> "undefined"]

\* The absent city id: null, undefined and 0 are the values the code's
\* tests (!rule.cityId, if (cityId)) take for "no city".
NoCity == 0

\* What a call completes with: a returned value, or a raised TypeError.
Normal(v) == [threw |-> FALSE, value |-> v]
Throw == [threw |-> TRUE, value |-> <<>>]

(***************************************************************************)
(* cartDelayCalculator.ts                                                  *)
(***************************************************************************)
TagCake == <<"c", "a", "k", "e", "-">>
TagDelay == <<"d", "e", "l", "a", "y">>

\* String.prototype.match with DELAY_TAG_PATTERN,
\* /^(?:cake-)?delay(?:-(\d+))?$/i: whether s matches, and capture group 1
\* (empty when the group did not take part).
DelayTagMatch(s) ==
  LET afterCake == IF StartsWithI(s, TagCake) THEN Drop(s, Len(TagCake)) ELSE s
      rest == Drop(afterCake, Len(TagDelay))
  IN  IF ~StartsWithI(afterCake, TagDelay)
      THEN [matched |-> FALSE, group1 |-> <<>>]
      ELSE IF rest = <<>>
      THEN [matched |-> TRUE, group1 |-> <<>>]
      ELSE IF Head(rest) = "-" /\ Len(rest) >= 2 /\ AllDigits(Tail(rest))
      THEN [matched |-> TRUE, group1 |-> Tail(rest)]
      ELSE [matched |-> FALSE, group1 |-> <<>>]

\* A variant of DelayOfTagString that defaults the parsed number instead of
\* the capture group (parseInt(match[1], 10) || 1), so that a suffix of 0
\* counts as no suffix.
DelayOfTagString_ZeroIsOne(s) ==
  LET normalizedTag == ToLowerCase(Trim(s))
      match == DelayTagMatch(normalizedTag)
      parsed == IF match.group1 # <<>> THEN ParseInt(match.group1) ELSE 0
      delayValue == IF parsed = 0 THEN 1 ELSE parsed
  IN  IF ~match.matched THEN 0
      ELSE IF delayValue < 0 THEN 0 ELSE delayValue

\* The body of parseDelayFromTag for a string tag.  parseInt of a match of
\* \d+ is never NaN, so of the final test only the sign remains.
DelayOfTagString(s) ==
  LET normalizedTag == ToLowerCase(Trim(s))
      match == DelayTagMatch(normalizedTag)
      delayValue == IF match.group1 # <<>> THEN ParseInt(match.group1) ELSE 1
  IN  IF ~match.matched THEN 0
      ELSE IF delayValue < 0 THEN 0 ELSE delayValue

\* parseDelayFromTag: tag.trim() raises a TypeError when tag is null or
\* undefined; the function has no guard before it.
parseDelayFromTag(tag) ==
  IF tag.type \in {"null", "undefined"}
  THEN Throw
  ELSE Normal(DelayOfTagString(tag.chars))

\* tags.reduce((maxDelay, tag) => Math.max(maxDelay, parseDelayFromTag(tag)), 0)
RECURSIVE ReduceTags(_, _)
ReduceTags(tags, maxDelay) ==
  IF tags = <<>>
  THEN Normal(maxDelay)
  ELSE LET delay == parseDelayFromTag(Head(tags))
       IN  IF delay.threw
           THEN Throw
           ELSE ReduceTags(Tail(tags), Max2(maxDelay, delay.value))

getProductDelay(product) ==
  IF product.tags.type # "array"
  THEN Normal(0)
  ELSE ReduceTags(product.tags.items, 0)

\* A variant of ReduceProducts that adds the delays of the products up.
RECURSIVE ReduceProducts_Sum(_, _)
ReduceProducts_Sum(products, maxDelay) ==
  IF products = <<>>
  THEN Normal(maxDelay)
  ELSE LET productDelay == getProductDelay(Head(products))
       IN  IF productDelay.threw
           THEN Throw
           ELSE ReduceProducts_Sum(Tail(products), maxDelay + productDelay.value)

\* products.reduce((maxDelay, product) => Math.max(maxDelay, getProductDelay(product)), 0)
RECURSIVE ReduceProducts(_, _)
ReduceProducts(products, maxDelay) ==
  IF products = <<>>
  THEN Normal(maxDelay)
  ELSE LET productDelay == getProductDelay(Head(products))
       IN  IF productDelay.threw
           THEN Throw
           ELSE ReduceProducts(Tail(products), Max2(maxDelay, productDelay.value))

calculateCartDelay(products) ==
  IF products.type # "array" \/ Len(products.items) = 0
  THEN Normal(0)
  ELSE ReduceProducts(products.items, 0)

(***************************************************************************)
(* The inputs of the cart delay calculator.                                *)
(***************************************************************************)
\* The pieces tags are put together from.
TagParts ==
  { TagCake, <<"C", "A", "K", "E", "-">>, TagDelay,
    <<"D", "E", "L", "A", "Y">>, <<"-">>, <<"-", "0">>, <<"-", "3">>,
    <<"1", "2">>, <<"x">>, <<" ">> }

\* The white space around a tag.
TagPadsLeft == { <<>>, <<" ">>, <<"\t", " ">> }
TagPadsRight == { <<>>, <<" ">> }

AbsentTags == {JsNull, JsUndefined}

\* The tags of cart products.
CartTags ==
  { JsString(TagDelay),
    JsString(<<"C", "a", "k", "e", "-", "d", "e", "l", "a", "y", "-", "3">>),
    JsString(<<"x">>) }

TagsFields ==
  {JsArray(ts) : ts \in SeqsUpTo(CartTags, MaxTags)}
    \cup {JsUndefined, JsNull, JsString(TagDelay)}

CartProducts == {[tags |-> t] : t \in TagsFields}

\* What is passed for the cart when it is not an array.
AbsentCarts == {JsNull, JsUndefined}

(***************************************************************************)
(* The JavaScript Date the services call.  A Date is its local day number  *)
(* (Day(t) of ECMA-262, counted from 1 January 1970) and the minute within *)
(* that day; the getters take it apart and the constructor and setDate put *)
(* it together with MakeDay.  All of it is local civil time: the services  *)
(* never convert between zones.                                            *)
(***************************************************************************)
MinutesPerHour == 60

\* DayFromYear(y) of ECMA-262: the day number of 1 January of year y.
DayFromYear(y) ==
  365 * (y - 1970) + ((y - 1969) \div 4) - ((y - 1901) \div 100)
    + ((y - 1601) \div 400)

InLeapYear(y) == DayFromYear(y + 1) - DayFromYear(y) = 366

\* The days of the year before the first of month m (0 = January), in a
\* leap year and in a common year.
DaysBeforeMonthIn(leap, m) ==
  <<0, 31, 59, 90, 120, 151, 181, 212, 243, 273, 304, 334>>[m + 1]
    + (IF m >= 2 /\ leap THEN 1 ELSE 0)

DaysBeforeMonth(y, m) == DaysBeforeMonthIn(InLeapYear(y), m)

\* MakeDay(year, month, date): the month may lie outside 0..11 and the date
\* outside the month; both carry over.
MakeDay(year, month, date) ==
  LET ym == year + (month \div 12)
      mn == month % 12
  IN  DayFromYear(ym) + DaysBeforeMonth(ym, mn) + date - 1

\* YearFromTime: the year whose days include day number t.
YearFromDay(t) ==
  LET a == 1970 + (t \div 366)
      b == 1970 + (t \div 365)
      lo == (IF a <= b THEN a ELSE b) - 2
      hi == (IF a <= b THEN b ELSE a) + 2
  IN  CHOOSE y \in lo..hi : DayFromYear(y) <= t /\ t < DayFromYear(y + 1)

\* The month (0 = January) of each day within a year (DayWithinYear, from
\* 0), in a leap year and in a common year.
MonthOfDayWithinYear ==
  [leap \in BOOLEAN |->
     [d \in 0..365 |->
        CHOOSE m \in 0..11 :
          /\ DaysBeforeMonthIn(leap, m) <= d
          /\ (m = 11 \/ d < DaysBeforeMonthIn(leap, m + 1))]]

\* MonthFromTime (0 = January).
MonthFromDay(t) ==
  LET y == YearFromDay(t)
  IN  MonthOfDayWithinYear[InLeapYear(y)][t - DayFromYear(y)]

\* DateFromTime: the day of the month, from 1.
DateFromDay(t) ==
  LET y == YearFromDay(t)
  IN  t - DayFromYear(y) - DaysBeforeMonth(y, MonthFromDay(t)) + 1

getFullYear(date) == YearFromDay(date.day)
getMonth(date) == MonthFromDay(date.day)
getDate(date) == DateFromDay(date.day)
getHours(date) == date.minute \div MinutesPerHour
getMinutes(date) == date.minute % MinutesPerHour

\* new Date(year, monthIndex, day): local midnight; a year of 0..99 stands
\* for 1900 + year.
NewDate(year, monthIndex, day) ==
  LET yr == IF 0 <= year /\ year <= 99 THEN 1900 + year ELSE year
  IN  [day |-> MakeDay(yr, monthIndex, day), minute |-> 0]

\* date.setDate(d): the same month and time of day, day of month d.
SetDate(date, d) ==
  [day |-> MakeDay(getFullYear(date), getMonth(date), d), minute |-> date.minute]

\* String(n) of a number n >= 0.
RECURSIVE NumberToString(_)
NumberToString(n) ==
  IF n < 10
  THEN <<CharsByCode[CharCode("0") + n]>>
  ELSE NumberToString(n \div 10) \o <<CharsByCode[CharCode("0") + (n % 10)]>>

\* s.padStart(2, "0")
PadStart2(s) == IF Len(s) < 2 THEN <<"0">> \o s ELSE s

(***************************************************************************)
(* dateAvailabilityService.ts: the date normalizer.                        *)
(***************************************************************************)
isValidDateComponents(year, month, day) ==
  IF month < 1 \/ month > 12 THEN FALSE
  ELSE IF day < 1 \/ day > 31 THEN FALSE
  ELSE LET date == NewDate(year, month - 1, day)
       IN  /\ getFullYear(date) = year
           /\ getMonth(date) = month - 1
           /\ getDate(date) = day

\* /^(\d{4})-(\d{2})-(\d{2})$/
IsoMatch(s) ==
  /\ Len(s) = 10
  /\ AllDigits(SubSeq(s, 1, 4))
  /\ s[5] = "-"
  /\ AllDigits(SubSeq(s, 6, 7))
  /\ s[8] = "-"
  /\ AllDigits(SubSeq(s, 9, 10))

\* /^(\d{2})\/(\d{2})\/(\d{4})$/
EuroMatch(s) ==
  /\ Len(s) = 10
  /\ AllDigits(SubSeq(s, 1, 2))
  /\ s[3] = "/"
  /\ AllDigits(SubSeq(s, 4, 5))
  /\ s[6] = "/"
  /\ AllDigits(SubSeq(s, 7, 10))

normalizeDate(dateStr) ==
  IF dateStr.type # "string" \/ dateStr.chars = <<>>
  THEN JsNull
  ELSE LET trimmed == Trim(dateStr.chars)
       IN  IF IsoMatch(trimmed)
           THEN IF isValidDateComponents(ParseInt(SubSeq(trimmed, 1, 4)),
                                         ParseInt(SubSeq(trimmed, 6, 7)),
                                         ParseInt(SubSeq(trimmed, 9, 10)))
                THEN JsString(trimmed)
                ELSE JsNull
           ELSE IF EuroMatch(trimmed)
           THEN LET day == SubSeq(trimmed, 1, 2)
                    month == SubSeq(trimmed, 4, 5)
                    year == SubSeq(trimmed, 7, 10)
                IN  IF isValidDateComponents(ParseInt(year), ParseInt(month),
                                             ParseInt(day))
                    THEN JsString(year \o <<"-">> \o PadStart2(month) \o <<"-">>
                                    \o PadStart2(day))
                    ELSE JsNull
           ELSE JsNull

formatDateToString(date) ==
  NumberToString(getFullYear(date)) \o <<"-">>
    \o PadStart2(NumberToString(getMonth(date) + 1)) \o <<"-">>
    \o PadStart2(NumberToString(getDate(date)))

\* parseDate: null, or the Date of local midnight.
parseDate(dateStr) ==
  LET normalized == normalizeDate(dateStr)
  IN  IF normalized.type = "null"
      THEN JsNull
      ELSE [type |-> "date",
            date |-> NewDate(ParseInt(SubSeq(normalized.chars, 1, 4)),
                             ParseInt(SubSeq(normalized.chars, 6, 7)) - 1,
                             ParseInt(SubSeq(normalized.chars, 9, 10)))]

\* A variant of addDays that adds the days to the day of the month without
\* letting the month carry (the day wraps within a 31-day month).
addDays_NoCarry(date, days) ==
  SetDate(date, ((getDate(date) + days - 1) % 31) + 1)

addDays(date, days) == SetDate(date, getDate(date) + days)

(***************************************************************************)
(* dateAvailabilityService.ts: the available dates of a window.            *)
(***************************************************************************)
\* A value the code tests for truth where it expects a string: null,
\* undefined and the empty string are false.
Truthy(v) == v.type = "string" /\ v.chars # <<>>

\* A variant of normalizeDisabledDates that keeps the entries already in
\* canonical form and drops the others instead of normalizing them.
normalizeDisabledDates_IsoOnly(disabledDates) ==
  LET normalized ==
        { normalizeDate(disabledDates[i]) :
            i \in { j \in 1..Len(disabledDates) :
                      IsoMatch(disabledDates[j].chars) } }
  IN  { normalizedDate.chars :
          normalizedDate \in { n \in normalized : Truthy(n) } }

\* normalizeDisabledDates: the set of the entries' normalized dates.
normalizeDisabledDates(disabledDates) ==
  LET normalized ==
        { normalizeDate(disabledDates[i]) : i \in 1..Len(disabledDates) }
  IN  { normalizedDate.chars :
          normalizedDate \in { n \in normalized : Truthy(n) } }

\* a < b of two strings: by the code of the first character that differs.
RECURSIVE StringLess(_, _)
StringLess(a, b) ==
  IF b = <<>> THEN FALSE
  ELSE IF a = <<>> THEN TRUE
  ELSE IF Head(a) = Head(b) THEN StringLess(Tail(a), Tail(b))
  ELSE CharCode(Head(a)) < CharCode(Head(b))

\* isDateInDisableRange: date and startDate are strings, endDate a string
\* or undefined; the strings are compared as strings.
isDateInDisableRange(date, startDate, endDate) ==
  IF StringLess(date, startDate) THEN FALSE
  ELSE IF Truthy(endDate) /\ StringLess(endDate.chars, date) THEN FALSE
  ELSE TRUE

\* current <= end of two Dates: by their time values.
DateLeq(a, b) == a.day < b.day \/ (a.day = b.day /\ a.minute <= b.minute)

\* The while loop of buildDisabledDateSet: the formatted days from current
\* to end, one setDate(getDate() + 1) at a time.
RECURSIVE ExpandRange(_, _)
ExpandRange(current, end) ==
  IF DateLeq(current, end)
  THEN {formatDateToString(current)}
         \cup ExpandRange(SetDate(current, getDate(current) + 1), end)
  ELSE {}

\* The body of the for loop of buildDisabledDateSet: the days one rule adds.
DisabledByRule(rule, cityId) ==
  LET applies == rule.cityId = NoCity
                   \/ (cityId # NoCity /\ rule.cityId = cityId)
      startDate == normalizeDate(rule.startDate)
      endDate == IF Truthy(rule.endDate)
                 THEN normalizeDate(rule.endDate)
                 ELSE JsNull
      current == parseDate(startDate)
      end == IF Truthy(endDate) THEN parseDate(endDate) ELSE current
  IN  IF ~applies THEN {}
      ELSE IF ~Truthy(startDate) THEN {}
      ELSE IF current.type = "null" \/ end.type = "null" THEN {}
      ELSE ExpandRange(current.date, end.date)

\* A variant of buildDisabledDateSet that applies every rule, whatever its
\* city.
buildDisabledDateSet_AnyCity(dateRules, cityId) ==
  UNION { DisabledByRule([dateRules[i] EXCEPT !.cityId = NoCity], cityId) :
            i \in 1..Len(dateRules) }

buildDisabledDateSet(dateRules, cityId) ==
  UNION { DisabledByRule(dateRules[i], cityId) : i \in 1..Len(dateRules) }

\* The for loop of getAvailableDates from its i-th round on.
RECURSIVE WalkDays(_, _, _, _, _)
WalkDays(currentDate, i, daysToShow, disabledSet, availableDates) ==
  IF i < daysToShow
  THEN LET dateStr == formatDateToString(currentDate)
       IN  WalkDays(SetDate(currentDate, getDate(currentDate) + 1), i + 1,
                    daysToShow, disabledSet,
                    IF dateStr \notin disabledSet
                    THEN Append(availableDates, dateStr)
                    ELSE availableDates)
  ELSE availableDates

\* A variant of getAvailableDates that builds no disabled set: every day of
\* the window is returned.
getAvailableDates_NothingDisabled(startDate, daysToShow, disabledDates, cityId) ==
  IF daysToShow <= 0
  THEN <<>>
  ELSE WalkDays(startDate, 0, daysToShow, {}, <<>>)

getAvailableDates(startDate, daysToShow, disabledDates, cityId) ==
  IF daysToShow <= 0
  THEN <<>>
  ELSE LET disabledSet ==
             IF disabledDates.type = "array" /\ Len(disabledDates.items) > 0
             THEN IF disabledDates.items[1].type = "string"
                  THEN normalizeDisabledDates(disabledDates.items)
                  ELSE buildDisabledDateSet(disabledDates.items, cityId)
             ELSE {}
       IN  WalkDays(startDate, 0, daysToShow, disabledSet, <<>>)

(***************************************************************************)
(* The inputs of the date normalizer.                                      *)
(***************************************************************************)
YearStrings ==
  { <<"0", "0", "5", "0">>, <<"1", "9", "0", "0">>, <<"2", "0", "0", "0">>,
    <<"2", "0", "2", "3">>, <<"2", "0", "2", "4">> }

MonthStrings ==
  { <<"0", "0">>, <<"0", "1">>, <<"0", "2">>, <<"0", "4">>, <<"1", "2">>,
    <<"1", "3">>, <<"2">> }

DayStrings ==
  { <<"0", "0">>, <<"0", "1">>, <<"2", "8">>, <<"2", "9">>, <<"3", "0">>,
    <<"3", "1">>, <<"3", "2">>, <<"5">> }

DateSeparators == { <<"-">>, <<"/">> }

\* Year first and day first, with either separator, and with white space or
\* a stray character around them.
DateStrings ==
  { l \o body \o r :
      l \in {<<>>, <<" ">>},
      r \in {<<>>, <<" ">>, <<"x">>},
      body \in
        { y \o s1 \o m \o s2 \o d :
            y \in YearStrings, m \in MonthStrings, d \in DayStrings,
            s1 \in DateSeparators, s2 \in DateSeparators }
          \cup
        { d \o s1 \o m \o s2 \o y :
            y \in YearStrings, m \in MonthStrings, d \in DayStrings,
            s1 \in DateSeparators, s2 \in DateSeparators }
          \cup { <<>> } }

DateInputs == {JsString(s) : s \in DateStrings} \cup {JsNull, JsUndefined}

(***************************************************************************)
(* The inputs of getAvailableDates.                                        *)
(***************************************************************************)
\* The first day of the window: two days before the end of a year, of a
\* leap February and of a common February.
WindowStartDays ==
  { [year |-> 2024, month |-> 12, date |-> 30],
    [year |-> 2024, month |-> 2, date |-> 27],
    [year |-> 2023, month |-> 2, date |-> 27] }

\* The time of day of startDate, in minutes: midnight and 14:30.
WindowStartMinutes == {0, 870}

WindowSizes == {0 - 1} \cup (0..MaxWindow)

\* Entries of a flat list: year first, day first, padded with white space,
\* a day that is not in the calendar and a date followed by a letter.
DisabledEntries ==
  { JsString(<<"2", "0", "2", "4", "-", "1", "2", "-", "3", "1">>),
    JsString(<<"0", "1", "/", "0", "1", "/", "2", "0", "2", "5">>),
    JsString(<<" ", "2", "0", "2", "4", "-", "0", "2", "-", "2", "8", " ">>),
    JsString(<<"2", "9", "/", "0", "2", "/", "2", "0", "2", "3">>),
    JsString(<<"2", "0", "2", "4", "-", "1", "2", "-", "3", "0", "x">>) }

\* The ranges of date rules, each with the cities its rules are of: one
\* day without an end date, two days across the end of the year, three days
\* from a day-first start date, a range that ends before it starts, a start
\* date that is no date and an end date that is no date.
DateRuleRanges ==
  { [startDate |-> JsString(<<"2", "0", "2", "4", "-", "1", "2", "-", "3", "1">>),
     endDate |-> JsUndefined,
     cities |-> {NoCity, 1, 2}],
    [startDate |-> JsString(<<"2", "0", "2", "4", "-", "1", "2", "-", "3", "1">>),
     endDate |-> JsString(<<"2", "0", "2", "5", "-", "0", "1", "-", "0", "1">>),
     cities |-> {2}],
    [startDate |-> JsString(<<"2", "8", "/", "0", "2", "/", "2", "0", "2", "4">>),
     endDate |-> JsString(<<"2", "0", "2", "4", "-", "0", "3", "-", "0", "1">>),
     cities |-> {NoCity}],
    [startDate |-> JsString(<<"2", "0", "2", "5", "-", "0", "1", "-", "0", "1">>),
     endDate |-> JsString(<<"2", "0", "2", "4", "-", "1", "2", "-", "3", "0">>),
     cities |-> {NoCity}],
    [startDate |-> JsString(<<"2", "0", "2", "3", "-", "0", "2", "-", "3", "0">>),
     endDate |-> JsUndefined,
     cities |-> {NoCity}],
    [startDate |-> JsString(<<"2", "0", "2", "3", "-", "0", "2", "-", "2", "8">>),
     endDate |-> JsString(<<"x">>),
     cities |-> {NoCity}] }

DateRules ==
  UNION { { [type |-> "object", startDate |-> r.startDate,
             endDate |-> r.endDate, cityId |-> c] : c \in r.cities } :
          r \in DateRuleRanges }

\* The strings of the round trip, YYYY-MM-DD with years of fewer than four
\* significant digits among them, and days and months outside the calendar.
RoundTripStrings ==
  { y \o <<"-">> \o m \o <<"-">> \o d :
      y \in { <<"0", "0", "5", "0">>, <<"0", "9", "9", "9">>,
              <<"1", "0", "0", "0">>, <<"2", "0", "2", "3">>,
              <<"2", "0", "2", "4">> },
      m \in { <<"0", "1">>, <<"0", "2">>, <<"1", "2">>, <<"1", "3">> },
      d \in { <<"0", "1">>, <<"2", "8">>, <<"2", "9">>, <<"3", "1">>,
              <<"3", "2">> } }

\* The civil days of the Dates of the round trip.
RoundTripYears == {50, 999, 1000, 2023, 2024}

RoundTripDays ==
  { [year |-> y, month |-> m, date |-> d] :
      y \in RoundTripYears, m \in {1, 2, 12}, d \in {1, 28} }
    \cup { [year |-> y, month |-> 12, date |-> 31] : y \in RoundTripYears }

\* The Date of local midnight of a civil day, whatever its year (a year
\* below 100 is reached with setFullYear).
MidnightOf(civil) ==
  [day |-> MakeDay(civil.year, civil.month - 1, civil.date), minute |-> 0]

\* The canonical dates of the range tests: from the end of 2024 to the
\* first of February 2025, across the turn of the year and of a month.
RangeDates ==
  { <<"2", "0", "2", "4", "-", "1", "2", "-", "3", "0">>,
    <<"2", "0", "2", "4", "-", "1", "2", "-", "3", "1">>,
    <<"2", "0", "2", "5", "-", "0", "1", "-", "0", "1">>,
    <<"2", "0", "2", "5", "-", "0", "1", "-", "0", "2">>,
    <<"2", "0", "2", "5", "-", "0", "1", "-", "3", "1">>,
    <<"2", "0", "2", "5", "-", "0", "2", "-", "0", "1">> }

\* The optional endDate: a canonical date, or undefined.
RangeEndDates == {JsString(d) : d \in RangeDates} \cup {JsUndefined}

(***************************************************************************)
(* cityCutoffService.ts (src/unnamed/part_008)                             *)
(***************************************************************************)
DEFAULT_CUTOFF_TIME == <<"2", "3", ":", "5", "9">>

\* A variant of parseTime that lets the hours reach 24.
parseTime_HoursTo24(timeStr) ==
  IF timeStr.type # "string" \/ timeStr.chars = <<>>
  THEN JsNull
  ELSE LET t == Trim(timeStr.chars)
           colon == Len(t) - 2
           matched == /\ Len(t) \in {4, 5}
                      /\ AllDigits(SubSeq(t, 1, colon - 1))
                      /\ t[colon] = ":"
                      /\ AllDigits(SubSeq(t, colon + 1, Len(t)))
       IN  IF ~matched
           THEN JsNull
           ELSE LET hours == ParseInt(SubSeq(t, 1, colon - 1))
                    minutes == ParseInt(SubSeq(t, colon + 1, Len(t)))
                IN  IF hours < 0 \/ hours > 24 \/ minutes < 0 \/ minutes > 59
                    THEN JsNull
                    ELSE [type |-> "time", hours |-> hours, minutes |-> minutes]

\* parseTime: null, or the hours and minutes of /^(\d{1,2}):(\d{2})$/.
parseTime(timeStr) ==
  IF timeStr.type # "string" \/ timeStr.chars = <<>>
  THEN JsNull
  ELSE LET t == Trim(timeStr.chars)
           colon == Len(t) - 2
           matched == /\ Len(t) \in {4, 5}
                      /\ AllDigits(SubSeq(t, 1, colon - 1))
                      /\ t[colon] = ":"
                      /\ AllDigits(SubSeq(t, colon + 1, Len(t)))
       IN  IF ~matched
           THEN JsNull
           ELSE LET hours == ParseInt(SubSeq(t, 1, colon - 1))
                    minutes == ParseInt(SubSeq(t, colon + 1, Len(t)))
                IN  IF hours < 0 \/ hours > 23 \/ minutes < 0 \/ minutes > 59
                    THEN JsNull
                    ELSE [type |-> "time", hours |-> hours, minutes |-> minutes]

\* city.cutoffTime || DEFAULT_CUTOFF_TIME
getCityCutoffTime(city) ==
  IF city.cutoffTime.type # "string" \/ city.cutoffTime.chars = <<>>
  THEN JsString(DEFAULT_CUTOFF_TIME)
  ELSE city.cutoffTime

\* A variant of isBeforeCutoff that still answers true in the cutoff minute
\* (currentMinutes <= parsed.minutes).
isBeforeCutoff_CutoffMinuteIncluded(cutoffTime, currentTime) ==
  LET parsed == parseTime(cutoffTime)
      currentHours == getHours(currentTime)
      currentMinutes == getMinutes(currentTime)
  IN  IF parsed.type = "null" THEN FALSE
      ELSE IF currentHours < parsed.hours THEN TRUE
      ELSE IF currentHours = parsed.hours /\ currentMinutes <= parsed.minutes
      THEN TRUE
      ELSE FALSE

isBeforeCutoff(cutoffTime, currentTime) ==
  LET parsed == parseTime(cutoffTime)
      currentHours == getHours(currentTime)
      currentMinutes == getMinutes(currentTime)
  IN  IF parsed.type = "null" THEN FALSE
      ELSE IF currentHours < parsed.hours THEN TRUE
      ELSE IF currentHours = parsed.hours /\ currentMinutes < parsed.minutes
      THEN TRUE
      ELSE FALSE

isSameDayDeliveryAvailable(city, currentTime) ==
  isBeforeCutoff(getCityCutoffTime(city), currentTime)

getMinimumDeliveryDate(city, currentTime, baseDelay) ==
  LET today == NewDate(getFullYear(currentTime), getMonth(currentTime),
                       getDate(currentTime))
      sameDayAvailable == isSameDayDeliveryAvailable(city, currentTime)
      totalDelay == IF sameDayAvailable THEN baseDelay ELSE baseDelay + 1
  IN  addDays(today, totalDelay)

\* A variant of getTimeUntilCutoff that reports all the remaining minutes
\* in the minutes field (diffMinutes instead of diffMinutes % 60).
getTimeUntilCutoff_AllMinutes(city, currentTime) ==
  LET cutoffTime == getCityCutoffTime(city)
      parsed == parseTime(cutoffTime)
      currentMinutes == getHours(currentTime) * MinutesPerHour
                          + getMinutes(currentTime)
      cutoffMinutes == parsed.hours * MinutesPerHour + parsed.minutes
      diffMinutes == cutoffMinutes - currentMinutes
  IN  IF parsed.type = "null" THEN JsNull
      ELSE IF ~isBeforeCutoff(cutoffTime, currentTime) THEN JsNull
      ELSE [type |-> "time",
            hours |-> diffMinutes \div MinutesPerHour,
            minutes |-> diffMinutes]

\* diffMinutes is positive where it is used, so Math.floor(diffMinutes / 60)
\* and diffMinutes % 60 are the quotient and the remainder.
getTimeUntilCutoff(city, currentTime) ==
  LET cutoffTime == getCityCutoffTime(city)
      parsed == parseTime(cutoffTime)
      currentMinutes == getHours(currentTime) * MinutesPerHour
                          + getMinutes(currentTime)
      cutoffMinutes == parsed.hours * MinutesPerHour + parsed.minutes
      diffMinutes == cutoffMinutes - currentMinutes
  IN  IF parsed.type = "null" THEN JsNull
      ELSE IF ~isBeforeCutoff(cutoffTime, currentTime) THEN JsNull
      ELSE [type |-> "time",
            hours |-> diffMinutes \div MinutesPerHour,
            minutes |-> diffMinutes % MinutesPerHour]

(***************************************************************************)
(* The inputs of the cutoff service.                                       *)
(***************************************************************************)
\* Civil days of the reference instant: the ends of February in a leap
\* year, a common year and a century year, the end of a 30-day month and
\* of the year, and a day in mid-month.
NowDays ==
  { [year |-> 2024, month |-> 2, date |-> 28],
    [year |-> 2023, month |-> 2, date |-> 28],
    [year |-> 2100, month |-> 2, date |-> 28],
    [year |-> 2024, month |-> 4, date |-> 30],
    [year |-> 2024, month |-> 12, date |-> 24],
    [year |-> 2024, month |-> 12, date |-> 31] }

NowHours == {0, 9, 14, 23}
NowMinutes == {0, 5, 30, 59}

\* The Date of a civil day and time of day:
\* new Date(year, month - 1, date, hours, minutes).
DateAt(civil, hours, minutes) ==
  [day |-> NewDate(civil.year, civil.month - 1, civil.date).day,
   minute |-> hours * MinutesPerHour + minutes]

CutoffTimes ==
  { JsUndefined, JsString(<<>>),
    JsString(<<"1", "4", ":", "3", "0">>),
    JsString(<<"9", ":", "0", "5">>),
    JsString(<<"0", "0", ":", "0", "0">>),
    JsString(<<"2", "3", ":", "5", "9">>),
    JsString(<<" ", "1", "4", ":", "3", "0", " ">>),
    JsString(<<"2", "4", ":", "0", "0">>),
    JsString(<<"1", "4", ":", "6", "0">>),
    JsString(<<"1", "4", ":", "3">>),
    JsString(<<"1", "4", "3", "0">>),
    JsString(<<"x", "4", ":", "3", "0">>) }

\* The strings given to parseTime: an hour part, a separator, a minute part
\* and a tail, between two runs of white space.
TimeHourParts ==
  { <<>>, <<"0">>, <<"9">>, <<"0", "0">>, <<"0", "9">>, <<"1", "4">>,
    <<"2", "3">>, <<"2", "4">>, <<"9", "9">>, <<"1", "2", "3">>, <<"x">> }

TimeSeparators == { <<":">>, <<>>, <<"-">>, <<":", ":">>, <<" ", ":">> }

TimeMinuteParts ==
  { <<>>, <<"0", "0">>, <<"0", "5">>, <<"3", "0">>, <<"5", "9">>,
    <<"6", "0">>, <<"9", "9">>, <<"5">>, <<"0", "0", "5">>, <<"3", "x">> }

TimeTails == { <<>>, <<"x">>, <<":", "0", "0">> }

TimePads == { <<>>, <<" ">>, <<"\t", " ">> }

TimeStrings ==
  { l \o h \o s \o m \o t \o r :
      l \in TimePads, h \in TimeHourParts, s \in TimeSeparators,
      m \in TimeMinuteParts, t \in TimeTails, r \in TimePads }

TimeInputs == {JsString(s) : s \in TimeStrings} \cup {JsNull, JsUndefined}

Cities == {[cutoffTime |-> c] : c \in CutoffTimes}

\* Delays of a few days, of more than a month and of more than a year.
CartDelays == (0..MaxDelay) \cup {45, 400}

(***************************************************************************)
(* The delivery test route (src/unnamed/part_002): from the cart and the   *)
(* selected city to the dates offered.                                     *)
(***************************************************************************)
\* The "Calculate results" part of the route's action: the cart delay, the
\* minimum date of the selected city (without a city: now plus the delay,
\* the time of day kept) and the available dates from it.  The route calls
\* getAvailableDates with three arguments, so no city reaches it; the
\* number of days, 14 in the route, is a parameter.
routeAvailableDates(selectedCity, now, cartProducts, daysToShow, disabledDates) ==
  LET cartDelay == calculateCartDelay(cartProducts)
      minimumDate ==
        IF selectedCity.type # "undefined"
        THEN getMinimumDeliveryDate(selectedCity, now, cartDelay.value)
        ELSE SetDate(now, getDate(now) + cartDelay.value)
  IN  IF cartDelay.threw
      THEN Throw
      ELSE Normal(getAvailableDates(minimumDate, daysToShow, disabledDates,
                                    NoCity))

\* The cities of the configuration as config.cities.find gives them, and
\* undefined when no city has the id of the form.
SelectedCities ==
  {[type |-> "object", cutoffTime |-> c] : c \in CutoffTimes}
    \cup {JsUndefined}

\* The carts of the route: one product, its tags the strings of the form.
RouteCarts ==
  {JsArray(<<[tags |-> JsArray(ts)]>>) : ts \in SeqsUpTo(CartTags, 1)}

\* The disabled dates of the configuration the instants are tried with.
ConfigDisabledDates ==
  JsArray(<< JsString(<<"2", "0", "2", "4", "-", "1", "2", "-", "3", "1">>),
             JsString(<<"0", "1", "/", "0", "1", "/", "2", "0", "2", "5">>) >>)

\* The entries and the rules of the disable sources: those about the turn
\* of the year, an entry that is no date, and a rule of one city.
SourceEntries ==
  { JsString(<<"2", "0", "2", "4", "-", "1", "2", "-", "3", "1">>),
    JsString(<<"0", "1", "/", "0", "1", "/", "2", "0", "2", "5">>),
    JsString(<<"2", "0", "2", "4", "-", "1", "2", "-", "3", "0", "x">>) }

SourceRules ==
  { r \in DateRules :
      /\ r.cityId \in {NoCity, 2}
      /\ r.startDate \in
           { JsString(<<"2", "0", "2", "4", "-", "1", "2", "-", "3", "1">>),
             JsString(<<"2", "8", "/", "0", "2", "/", "2", "0", "2", "4">>) } }

\* The disable sources: flat lists and lists of range rules.
DisableSources ==
  {JsArray(entries) : entries \in SeqsUpTo(SourceEntries, MaxDisabled)}
    \cup {JsArray(rules) :
            rules \in SeqsUpTo(SourceRules, MaxDateRules) \ {<<>>}}

\* The cities the disable sources are tried with: a cutoff of 14:30 and no
\* cutoff of its own.
SourceCities ==
  { [type |-> "object", cutoffTime |-> JsString(<<"1", "4", ":", "3", "0">>)],
    [type |-> "object", cutoffTime |-> JsUndefined] }

\* The days the disable sources are tried on: the last days of February
\* and of December 2024.
SourceDays == {civil \in NowDays : civil.year = 2024 /\ civil.date \in {28, 31}}

\* The carts the disable sources are tried with: no tag, and a tag of
\* three days.
SourceCarts ==
  { JsArray(<<[tags |-> JsArray(<<>>)]>>),
    JsArray(<<[tags |-> JsArray(<<JsString(
      <<"C", "a", "k", "e", "-", "d", "e", "l", "a", "y", "-", "3">>)>>)]>>) }

(***************************************************************************)
(* The objects of a call.  Dates and arrays are objects: an argument is a  *)
(* reference into the heap, the sequence of the objects allocated so far,  *)
(* and a function that writes through a reference changes what its caller  *)
(* sees.  Each function is translated statement by statement: new Date(d)  *)
(* and [] allocate, setDate and push write.  A function returns the heap   *)
(* it leaves and the reference (or value) it returns.                      *)
(***************************************************************************)
\* A variant of addDays that moves the Date it was given instead of a copy.
addDaysOnHeap_InPlace(h, date, days) ==
  [heap |-> [h EXCEPT ![date] = SetDate(@, getDate(@) + days)],
   value |-> date]

addDaysOnHeap(h, date, days) ==
  LET result == Len(h) + 1
      h1 == Append(h, h[date])
  IN  [heap |-> [h1 EXCEPT ![result] = SetDate(@, getDate(@) + days)],
       value |-> result]

getMinimumDeliveryDateOnHeap(h, city, currentTime, baseDelay) ==
  LET today == Len(h) + 1
      h1 == Append(h, NewDate(getFullYear(h[currentTime]),
                              getMonth(h[currentTime]),
                              getDate(h[currentTime])))
      sameDayAvailable == isSameDayDeliveryAvailable(city, h1[currentTime])
      totalDelay == IF sameDayAvailable THEN baseDelay ELSE baseDelay + 1
  IN  addDaysOnHeap(h1, today, totalDelay)

\* The for loop of getAvailableDates from its i-th round on: push writes
\* the result array, setDate writes currentDate.
RECURSIVE WalkDaysOnHeap(_, _, _, _, _, _)
WalkDaysOnHeap(h, currentDate, i, daysToShow, disabledSet, availableDates) ==
  IF i < daysToShow
  THEN LET dateStr == formatDateToString(h[currentDate])
           h1 == IF dateStr \notin disabledSet
                 THEN [h EXCEPT ![availableDates].items = Append(@, dateStr)]
                 ELSE h
           h2 == [h1 EXCEPT ![currentDate] = SetDate(@, getDate(@) + 1)]
       IN  WalkDaysOnHeap(h2, currentDate, i + 1, daysToShow, disabledSet,
                          availableDates)
  ELSE [heap |-> h, value |-> availableDates]

getAvailableDatesOnHeap(h, startDate, daysToShow, disabledDates, cityId) ==
  IF daysToShow <= 0
  THEN [heap |-> Append(h, JsArray(<<>>)), value |-> Len(h) + 1]
  ELSE LET disabledSet ==
             IF h[disabledDates].type = "array"
                  /\ Len(h[disabledDates].items) > 0
             THEN IF h[disabledDates].items[1].type = "string"
                  THEN normalizeDisabledDates(h[disabledDates].items)
                  ELSE buildDisabledDateSet(h[disabledDates].items, cityId)
             ELSE {}
           availableDates == Len(h) + 1
           currentDate == Len(h) + 2
       IN  WalkDaysOnHeap(h \o <<JsArray(<<>>), h[startDate]>>, currentDate,
                          0, daysToShow, disabledSet, availableDates)

\* The numbers of days given to addDays: forwards and backwards.
DayCounts == {0 - n : n \in 1..MaxDelay} \cup CartDelays

(***************************************************************************)
(* slotAvailabilityService.ts                                              *)
(***************************************************************************)
\* A variant of isDateInRange whose end date is outside the range.
isDateInRange_EndExclusive(date, startDate, endDate) ==
  IF StringLess(date, startDate) THEN FALSE
  ELSE IF endDate # <<>> /\ ~StringLess(date, endDate) THEN FALSE
  ELSE TRUE

\* An absent endDate is the empty sequence: the code tests it for truth.
isDateInRange(date, startDate, endDate) ==
  IF StringLess(date, startDate) THEN FALSE
  ELSE IF endDate # <<>> /\ StringLess(endDate, date) THEN FALSE
  ELSE TRUE

checkSlotActive(slot) ==
  IF ~slot.isActive
  THEN [disabled |-> TRUE, reason |-> <<"Slot is inactive">>]
  ELSE [disabled |-> FALSE, reason |-> <<>>]

\* rules.find(rule => rule.timeSlotId === slotId && !rule.cityId && ...)
RECURSIVE FindDateRule(_, _, _)
FindDateRule(slotId, date, rules) ==
  IF rules = <<>>
  THEN [found |-> FALSE]
  ELSE LET rule == Head(rules)
       IN  IF /\ rule.timeSlotId = slotId
              /\ rule.cityId = NoCity
              /\ isDateInRange(date, rule.startDate, rule.endDate)
           THEN [found |-> TRUE, rule |-> rule]
           ELSE FindDateRule(slotId, date, Tail(rules))

checkDateSpecificDisable(slotId, date, rules) ==
  LET dateRule == FindDateRule(slotId, date, rules)
  IN  IF dateRule.found
      THEN [disabled |-> TRUE,
            reason |-> IF dateRule.rule.reason # <<>>
                       THEN <<"Disabled: ", dateRule.rule.reason>>
                       ELSE <<"Disabled on ", date>>]
      ELSE [disabled |-> FALSE, reason |-> <<>>]

\* A variant of FindCityDateRule that does not compare the city.
RECURSIVE FindCityDateRule_AnyCity(_, _, _, _)
FindCityDateRule_AnyCity(slotId, date, cityId, rules) ==
  IF rules = <<>>
  THEN [found |-> FALSE]
  ELSE LET rule == Head(rules)
       IN  IF /\ rule.timeSlotId = slotId
              /\ rule.cityId # NoCity
              /\ isDateInRange(date, rule.startDate, rule.endDate)
           THEN [found |-> TRUE, rule |-> rule]
           ELSE FindCityDateRule_AnyCity(slotId, date, cityId, Tail(rules))

\* rules.find(rule => rule.timeSlotId === slotId && rule.cityId === cityId && ...)
RECURSIVE FindCityDateRule(_, _, _, _)
FindCityDateRule(slotId, date, cityId, rules) ==
  IF rules = <<>>
  THEN [found |-> FALSE]
  ELSE LET rule == Head(rules)
       IN  IF /\ rule.timeSlotId = slotId
              /\ rule.cityId = cityId
              /\ isDateInRange(date, rule.startDate, rule.endDate)
           THEN [found |-> TRUE, rule |-> rule]
           ELSE FindCityDateRule(slotId, date, cityId, Tail(rules))

checkCityDateDisable(slotId, date, cityId, rules) ==
  LET cityDateRule == FindCityDateRule(slotId, date, cityId, rules)
  IN  IF cityDateRule.found
      THEN [disabled |-> TRUE,
            reason |-> IF cityDateRule.rule.reason # <<>>
                       THEN <<"Disabled: ", cityDateRule.rule.reason>>
                       ELSE <<"Disabled for this city on ", date>>]
      ELSE [disabled |-> FALSE, reason |-> <<>>]

\* A variant of checkSlotAvailability that looks at the rules first: the
\* city rules, then the date rules, then the slot's own flag.
checkSlotAvailability_RulesFirst(slot, date, cityId, rules) ==
  LET activeCheck == checkSlotActive(slot)
      dateCheck == checkDateSpecificDisable(slot.id, date, rules)
      cityDateCheck == checkCityDateDisable(slot.id, date, cityId, rules)
  IN  IF cityId # NoCity /\ cityDateCheck.disabled
      THEN [slot |-> slot, disabled |-> TRUE, reason |-> cityDateCheck.reason]
      ELSE IF dateCheck.disabled
      THEN [slot |-> slot, disabled |-> TRUE, reason |-> dateCheck.reason]
      ELSE IF activeCheck.disabled
      THEN [slot |-> slot, disabled |-> TRUE, reason |-> activeCheck.reason]
      ELSE [slot |-> slot, disabled |-> FALSE, reason |-> <<>>]

checkSlotAvailability(slot, date, cityId, rules) ==
  LET activeCheck == checkSlotActive(slot)
      dateCheck == checkDateSpecificDisable(slot.id, date, rules)
      cityDateCheck == checkCityDateDisable(slot.id, date, cityId, rules)
  IN  IF activeCheck.disabled
      THEN [slot |-> slot, disabled |-> TRUE, reason |-> activeCheck.reason]
      ELSE IF dateCheck.disabled
      THEN [slot |-> slot, disabled |-> TRUE, reason |-> dateCheck.reason]
      ELSE IF cityId # NoCity /\ cityDateCheck.disabled
      THEN [slot |-> slot, disabled |-> TRUE, reason |-> cityDateCheck.reason]
      ELSE [slot |-> slot, disabled |-> FALSE, reason |-> <<>>]

\* checkSlotAvailability of a rule list that may be missing: the slot's own
\* flag is tested before the rules are read, and rules.find of a value that
\* is not an array raises a TypeError.
checkSlotAvailabilityOfValue(slot, date, cityId, rules) ==
  IF checkSlotActive(slot).disabled
  THEN Normal(checkSlotAvailability(slot, date, cityId, <<>>))
  ELSE IF rules.type # "array"
  THEN Throw
  ELSE Normal(checkSlotAvailability(slot, date, cityId, rules.items))

\* slots.map(slot => checkSlotAvailability(slot, date, cityId, rules))
MapSlots(slots, date, cityId, rules) ==
  [i \in 1..Len(slots) |-> checkSlotAvailability(slots[i], date, cityId, rules)]

getAvailableSlots(slots, date, cityId, rules) ==
  IF slots.type # "array"
  THEN <<>>
  ELSE IF rules.type # "array"
  THEN MapSlots(slots.items, date, cityId, <<>>)
  ELSE MapSlots(slots.items, date, cityId, rules.items)

\* .filter(result => !result.disabled).map(result => result.slot)
RECURSIVE EnabledOf(_)
EnabledOf(results) ==
  IF results = <<>>
  THEN <<>>
  ELSE IF ~Head(results).disabled
  THEN <<Head(results).slot>> \o EnabledOf(Tail(results))
  ELSE EnabledOf(Tail(results))

getEnabledSlots(slots, date, cityId, rules) ==
  EnabledOf(getAvailableSlots(slots, date, cityId, rules))

\* slots.find(s => s.id === slotId)
RECURSIVE FindSlot(_, _)
FindSlot(slots, slotId) ==
  IF slots = <<>>
  THEN [found |-> FALSE]
  ELSE IF Head(slots).id = slotId
  THEN [found |-> TRUE, slot |-> Head(slots)]
  ELSE FindSlot(Tail(slots), slotId)

\* slots.find of a value that is not an array raises a TypeError.
isSlotAvailable(slotId, slots, date, cityId, rules) ==
  IF slots.type # "array"
  THEN Throw
  ELSE LET slot == FindSlot(slots.items, slotId)
       IN  IF ~slot.found
           THEN Normal(FALSE)
           ELSE LET result ==
                      checkSlotAvailabilityOfValue(slot.slot, date, cityId,
                                                   rules)
                IN  IF result.threw
                    THEN Throw
                    ELSE Normal(~result.value.disabled)

(***************************************************************************)
(* dateAvailabilityService.ts: the handle-based slot resolver.  Slots and  *)
(* cities are named by string handles, which the code only compares for    *)
(* identity; a rule names one date or none.                                *)
(***************************************************************************)
\* The city handle of "no city": null, undefined and "" are the values the
\* code's tests (!rule.cityId, if (cityId)) take for it.
NoCityHandle == ""

checkGlobalDisable(slot) ==
  IF slot.isGloballyDisabled
  THEN [disabled |-> TRUE, reason |-> <<"Globally disabled">>]
  ELSE [disabled |-> FALSE, reason |-> <<>>]

\* rule.date === date: an omitted date is undefined and equals no string.
RuleDateIs(rule, date) == rule.date.type = "string" /\ rule.date.chars = date

\* rules.find(rule => rule.slotId === slotId && rule.date === date
\*                    && !rule.cityId)
HandleDateRuleFound(slotId, date, rules) ==
  \E i \in 1..Len(rules) :
    /\ rules[i].slotId = slotId
    /\ RuleDateIs(rules[i], date)
    /\ rules[i].cityId = NoCityHandle

checkDateSpecificDisableOfHandle(slotId, date, rules) ==
  IF HandleDateRuleFound(slotId, date, rules)
  THEN [disabled |-> TRUE, reason |-> <<"Disabled on ", date>>]
  ELSE [disabled |-> FALSE, reason |-> <<>>]

\* rules.find(rule => rule.slotId === slotId && rule.date === date
\*                    && rule.cityId === cityId)
HandleCityDateRuleFound(slotId, date, cityId, rules) ==
  \E i \in 1..Len(rules) :
    /\ rules[i].slotId = slotId
    /\ RuleDateIs(rules[i], date)
    /\ rules[i].cityId = cityId

checkCityDateDisableOfHandle(slotId, date, cityId, rules) ==
  IF HandleCityDateRuleFound(slotId, date, cityId, rules)
  THEN [disabled |-> TRUE, reason |-> <<"Disabled for this city on ", date>>]
  ELSE [disabled |-> FALSE, reason |-> <<>>]

checkSlotAvailabilityOfHandle(slot, date, cityId, rules) ==
  LET globalCheck == checkGlobalDisable(slot)
      dateCheck == checkDateSpecificDisableOfHandle(slot.id, date, rules)
      cityDateCheck ==
        checkCityDateDisableOfHandle(slot.id, date, cityId, rules)
  IN  IF globalCheck.disabled
      THEN [slot |-> slot, disabled |-> TRUE, reason |-> globalCheck.reason]
      ELSE IF dateCheck.disabled
      THEN [slot |-> slot, disabled |-> TRUE, reason |-> dateCheck.reason]
      ELSE IF cityId # NoCityHandle /\ cityDateCheck.disabled
      THEN [slot |-> slot, disabled |-> TRUE, reason |-> cityDateCheck.reason]
      ELSE [slot |-> slot, disabled |-> FALSE, reason |-> <<>>]

(***************************************************************************)
(* The inputs of the slot availability service.                            *)
(***************************************************************************)
\* Three consecutive days across the end of a year.
Dec31 == <<"2", "0", "2", "4", "-", "1", "2", "-", "3", "1">>
Jan01 == <<"2", "0", "2", "5", "-", "0", "1", "-", "0", "1">>
Jan02 == <<"2", "0", "2", "5", "-", "0", "1", "-", "0", "2">>

SlotDates == {Dec31, Jan01, Jan02}

\* The ranges of rules: one day named without an end date, and two days.
RuleRanges ==
  { [startDate |-> Jan01, endDate |-> <<>>],
    [startDate |-> Dec31, endDate |-> Jan01] }

SlotIds == {1, 2}
CityIds == {1, 2}

TimeSlots == {[id |-> i, isActive |-> a] : i \in SlotIds, a \in BOOLEAN}

RuleReasons == {<<>>, <<"x">>}

SlotDisableRules ==
  { [timeSlotId |-> i, cityId |-> c, startDate |-> r.startDate,
     endDate |-> r.endDate, reason |-> t] :
      i \in SlotIds, c \in CityIds \cup {NoCity}, r \in RuleRanges,
      t \in RuleReasons }

\* The slot lists of a shop: each id at most once, in either order.
SlotLists ==
  { slots \in SeqsUpTo(TimeSlots, Cardinality(SlotIds)) :
      \A i, j \in 1..Len(slots) : i # j => slots[i].id # slots[j].id }

\* The values passed for a list that is missing.
AbsentLists == {JsNull, JsUndefined}

\* The rules of the batch calls: the two-day range for each slot, for all
\* cities and for city 1.
BatchRules ==
  { rule \in SlotDisableRules :
      /\ rule.endDate # <<>>
      /\ rule.reason = <<>>
      /\ rule.cityId \in {NoCity, 1} }

\* The inputs of the handle-based resolver.
SlotHandles == {"slot_1", "slot_2"}
CityHandles == {"city_1", "city_remote"}

HandleSlots ==
  {[id |-> h, isGloballyDisabled |-> g] : h \in SlotHandles, g \in BOOLEAN}

\* A rule names 1 January 2025, or no date.
HandleRules ==
  { [slotId |-> h, date |-> d, cityId |-> c] :
      h \in SlotHandles, d \in {JsUndefined, JsString(Jan01)},
      c \in CityHandles \cup {NoCityHandle} }

(***************************************************************************)
(* checkoutEligibilityValidator.ts (src/unnamed/part_009)                  *)
(***************************************************************************)
FULL_NAME_REQUIRED == "Full name is required"
PHONE_NUMBER_REQUIRED == "Phone number is required"
PHONE_NUMBER_INVALID == "Phone number format is invalid"
DELIVERY_ADDRESS_REQUIRED == "Delivery address is required"
DELIVERY_DATE_REQUIRED == "Delivery date is required"
DELIVERY_DATE_INVALID == "Delivery date format is invalid"
DELIVERY_TIME_SLOT_REQUIRED == "Delivery time slot is required"

\* A number, and the number NaN.
JsNumber(n) == [type |-> "number", nan |-> FALSE, value |-> n]
JsNaN == [type |-> "number", nan |-> TRUE, value |-> 0]

\* !value: undefined, null, the empty string, 0 and NaN are false.
Falsy(v) ==
  \/ v.type \in {"undefined", "null"}
  \/ (v.type = "string" /\ v.chars = <<>>)
  \/ (v.type = "number" /\ (v.nan \/ v.value = 0))

isNonEmpty(value) == value.type = "string" /\ Len(Trim(value.chars)) > 0

validateFullName(fullName) ==
  IF ~isNonEmpty(fullName) THEN <<FULL_NAME_REQUIRED>> ELSE <<>>

\* A variant of validatePhoneNumber that asks for more than 7 digits
\* (digitsOnly.length <= 7 is an error).
validatePhoneNumber_EightDigits(phoneNumber) ==
  IF ~isNonEmpty(phoneNumber)
  THEN <<PHONE_NUMBER_REQUIRED>>
  ELSE LET digitsOnly == SelectSeq(phoneNumber.chars, LAMBDA c : c \in DigitChars)
       IN  IF Len(digitsOnly) <= 7 THEN <<PHONE_NUMBER_INVALID>> ELSE <<>>

\* phoneNumber.replace(/\D/g, "") keeps the digits, in order.
validatePhoneNumber(phoneNumber) ==
  IF ~isNonEmpty(phoneNumber)
  THEN <<PHONE_NUMBER_REQUIRED>>
  ELSE LET digitsOnly == SelectSeq(phoneNumber.chars, LAMBDA c : c \in DigitChars)
       IN  IF Len(digitsOnly) < 7 THEN <<PHONE_NUMBER_INVALID>> ELSE <<>>

validateDeliveryAddress(deliveryAddress) ==
  IF ~isNonEmpty(deliveryAddress) THEN <<DELIVERY_ADDRESS_REQUIRED>> ELSE <<>>

\* s.split("-"): the pieces of s between its dashes.
RECURSIVE SplitDash(_, _)
SplitDash(s, piece) ==
  IF s = <<>> THEN <<piece>>
  ELSE IF Head(s) = "-" THEN <<piece>> \o SplitDash(Tail(s), <<>>)
  ELSE SplitDash(Tail(s), Append(piece, Head(s)))

\* Number(s) of a piece of a string that has passed datePattern after
\* trimming: digits with white space before or after them, which Number
\* skips.
ToNumber(s) == ParseInt(Trim(s))

\* A variant of validateDeliveryDate that stops after the test of the
\* pattern.
validateDeliveryDate_SyntaxOnly(deliveryDate) ==
  IF ~isNonEmpty(deliveryDate)
  THEN <<DELIVERY_DATE_REQUIRED>>
  ELSE IF ~IsoMatch(Trim(deliveryDate.chars))
  THEN <<DELIVERY_DATE_INVALID>>
  ELSE <<>>

validateDeliveryDate(deliveryDate) ==
  IF ~isNonEmpty(deliveryDate)
  THEN <<DELIVERY_DATE_REQUIRED>>
  ELSE IF ~IsoMatch(Trim(deliveryDate.chars))
  THEN <<DELIVERY_DATE_INVALID>>
  ELSE LET pieces == SplitDash(deliveryDate.chars, <<>>)
           year == ToNumber(pieces[1])
           month == ToNumber(pieces[2])
           day == ToNumber(pieces[3])
           date == NewDate(year, month - 1, day)
           isValidDate == /\ getFullYear(date) = year
                          /\ getMonth(date) = month - 1
                          /\ getDate(date) = day
       IN  IF ~isValidDate THEN <<DELIVERY_DATE_INVALID>> ELSE <<>>

\* A variant of validateDeliveryTimeSlot without the test of the sign
\* (deliveryTimeSlot <= 0).
validateDeliveryTimeSlot_NoSignTest(deliveryTimeSlot) ==
  IF Falsy(deliveryTimeSlot) \/ deliveryTimeSlot.type # "number"
  THEN <<DELIVERY_TIME_SLOT_REQUIRED>>
  ELSE <<>>

validateDeliveryTimeSlot(deliveryTimeSlot) ==
  IF \/ Falsy(deliveryTimeSlot)
     \/ deliveryTimeSlot.type # "number"
     \/ (~deliveryTimeSlot.nan /\ deliveryTimeSlot.value <= 0)
  THEN <<DELIVERY_TIME_SLOT_REQUIRED>>
  ELSE <<>>

\* A variant of validateCheckout that validates the date before the
\* address.
validateCheckout_DateBeforeAddress(fields) ==
  LET errors == validateFullName(fields.fullName)
                  \o validatePhoneNumber(fields.phoneNumber)
                  \o validateDeliveryDate(fields.deliveryDate)
                  \o validateDeliveryAddress(fields.deliveryAddress)
                  \o validateDeliveryTimeSlot(fields.deliveryTimeSlot)
  IN  [isValid |-> Len(errors) = 0, errors |-> errors]

validateCheckout(fields) ==
  LET errors == validateFullName(fields.fullName)
                  \o validatePhoneNumber(fields.phoneNumber)
                  \o validateDeliveryAddress(fields.deliveryAddress)
                  \o validateDeliveryDate(fields.deliveryDate)
                  \o validateDeliveryTimeSlot(fields.deliveryTimeSlot)
  IN  [isValid |-> Len(errors) = 0, errors |-> errors]

(***************************************************************************)
(* The inputs of the checkout validator.                                   *)
(***************************************************************************)
\* The pieces a phone number is put together from.
PhoneParts ==
  { <<"5", "5", "5">>, <<"1", "2", "3", "4">>, <<"+", "1", " ">>, <<"-">>,
    <<" ">>, <<"(", "0", ")">>, <<"x">> }

AbsentStrings == {JsNull, JsUndefined}

SlotHandle == <<"s", "l", "o", "t", "_", "1">>

\* Values of deliveryTimeSlot: numeric ids, 0, a negative number, NaN, a
\* string handle, the empty string, null and undefined.
SlotValues ==
  {JsNumber(n) : n \in {0 - 1, 0} \cup SlotIds}
    \cup {JsNaN, JsString(SlotHandle), JsString(<<>>), JsNull, JsUndefined}

\* The fields of the examples of validateCheckout, and blank ones.
FullNames ==
  { JsString(<<>>), JsString(<<" ">>),
    JsString(<<"J", "o", "h", "n", " ", "D", "o", "e">>) }

PhoneNumbers ==
  { JsString(<<>>), JsString(<<"1", "2", "3">>),
    JsString(<<"+", "1", " ", "5", "5", "5", "-", "1", "2", "3", "-",
               "4", "5", "6", "7">>) }

DeliveryAddresses ==
  { JsString(<<>>), JsString(<<"\t">>),
    JsString(<<"1", "2", "3", " ", "M", "a", "i", "n", " ", "S", "t">>) }

DeliveryDates ==
  { JsString(<<>>),
    JsString(<<"2", "0", "2", "4", "-", "1", "2", "-", "2", "5">>),
    JsString(<<"2", "0", "2", "4", "-", "0", "2", "-", "3", "0">>),
    JsString(<<"2", "5", "/", "1", "2", "/", "2", "0", "2", "4">>) }

CheckoutSlots ==
  { JsNumber(0), JsNumber(1), JsNumber(0 - 1), JsString(SlotHandle),
    JsString(<<>>), JsUndefined }

(***************************************************************************)
(* deliveryConfigService.ts (src/unnamed/part_007): the configuration in   *)
(* the database.  db holds the City and TimeSlot tables, each a set of     *)
(* rows with an autoincrement id that is never given twice.  A service     *)
(* function returns the database it leaves and what it completes with.     *)
(* The rows a city has in the CityTimeSlot join table are never written by *)
(* the functions below and are left out of the rows and of the results.    *)
(***************************************************************************)
EmptyDb == [cities |-> {}, timeSlots |-> {}, lastCityId |-> 0, lastSlotId |-> 0]

\* The DeliveryCity a City row is returned as (cuttoffTime is the column).
CityOfRow(city) ==
  [id |-> city.id, name |-> city.name, shop |-> city.shop,
   isActive |-> city.isActive, isSpecial |-> city.isSpecial,
   cutoffTime |-> city.cuttoffTime]

\* The TimeSlot a TimeSlot row is returned as.
SlotOfRow(slot) ==
  [id |-> slot.id, shop |-> slot.shop, startTime |-> slot.startTime,
   endTime |-> slot.endTime, isActive |-> slot.isActive,
   label |-> slot.startTime \o <<" ", "-", " ">> \o slot.endTime]

\* orderBy: { name: "asc" }: by the name, rows of equal names by their id.
CityBefore(a, b) ==
  \/ StringLess(a.name, b.name)
  \/ (a.name = b.name /\ a.id < b.id)

RECURSIVE OrderedByName(_)
OrderedByName(rows) ==
  IF rows = {}
  THEN <<>>
  ELSE LET first == CHOOSE a \in rows :
                      \A b \in rows \ {a} : CityBefore(a, b)
       IN  <<first>> \o OrderedByName(rows \ {first})

\* prisma.city.findMany({ where: { shop, isActive: true }, orderBy: name })
loadCities(d, shop) ==
  LET cities == OrderedByName({c \in d.cities : c.shop = shop /\ c.isActive})
  IN  [i \in 1..Len(cities) |-> CityOfRow(cities[i])]

\* prisma.city.findFirst({ where: { id: cityId, shop, isActive: true } })
getCityById(d, shop, cityId) ==
  LET found == {c \in d.cities :
                  c.id = cityId /\ c.shop = shop /\ c.isActive}
  IN  IF found = {} THEN JsNull ELSE CityOfRow(CHOOSE c \in found : TRUE)

createCity(d, shop, data) ==
  LET city == [id |-> d.lastCityId + 1, shop |-> shop, name |-> data.name,
               isSpecial |-> data.isSpecial, cuttoffTime |-> data.cutoffTime,
               isActive |-> TRUE]
  IN  [db |-> [d EXCEPT !.cities = @ \cup {city},
                        !.lastCityId = city.id],
       completion |-> Normal(CityOfRow(city))]

\* The row after prisma's update with the fields that data defines; data
\* names the column cuttoffTime by cutoffTime.
UpdatedCity(city, data) ==
  [city EXCEPT
     !.name = IF "name" \in DOMAIN data THEN data.name ELSE @,
     !.isSpecial = IF "isSpecial" \in DOMAIN data THEN data.isSpecial ELSE @,
     !.cuttoffTime = IF "cutoffTime" \in DOMAIN data
                     THEN data.cutoffTime ELSE @,
     !.isActive = IF "isActive" \in DOMAIN data THEN data.isActive ELSE @]

\* prisma.city.update({ where: { id: cityId }, data: updateData }) raises
\* when no row has the id; the shop is compared after the row is written.
updateCity(d, shop, cityId, data) ==
  LET found == {c \in d.cities : c.id = cityId}
  IN  IF found = {}
      THEN [db |-> d, completion |-> Throw]
      ELSE LET old == CHOOSE c \in found : TRUE
               city == UpdatedCity(old, data)
           IN  [db |-> [d EXCEPT !.cities = (@ \ {old}) \cup {city}],
                completion |-> IF city.shop # shop
                               THEN Normal(JsNull)
                               ELSE Normal(CityOfRow(city))]

createTimeSlot(d, shop, data) ==
  LET slot == [id |-> d.lastSlotId + 1, shop |-> shop,
               startTime |-> data.startTime, endTime |-> data.endTime,
               isActive |-> TRUE]
  IN  [db |-> [d EXCEPT !.timeSlots = @ \cup {slot},
                        !.lastSlotId = slot.id],
       completion |-> Normal(SlotOfRow(slot))]

UpdatedSlot(slot, data) ==
  [slot EXCEPT
     !.startTime = IF "startTime" \in DOMAIN data THEN data.startTime ELSE @,
     !.endTime = IF "endTime" \in DOMAIN data THEN data.endTime ELSE @,
     !.isActive = IF "isActive" \in DOMAIN data THEN data.isActive ELSE @]

\* prisma.timeSlot.update({ where: { id: slotId }, data })
updateTimeSlot(d, shop, slotId, data) ==
  LET found == {s \in d.timeSlots : s.id = slotId}
  IN  IF found = {}
      THEN [db |-> d, completion |-> Throw]
      ELSE LET old == CHOOSE s \in found : TRUE
               slot == UpdatedSlot(old, data)
           IN  [db |-> [d EXCEPT !.timeSlots = (@ \ {old}) \cup {slot}],
                completion |-> IF slot.shop # shop
                               THEN Normal(JsNull)
                               ELSE Normal(SlotOfRow(slot))]

(***************************************************************************)
(* The inputs of the configuration service and of the city pages.          *)
(***************************************************************************)
\* Two shops; a shop is named by its domain, which the code only compares.
Shops == {"one.myshopify.com", "two.myshopify.com"}

\* Names that are equal once trimmed and lower-cased, and another name.
CityNames ==
  { <<"D", "a", "l", "e">>, <<" ", "d", "a", "l", "e", " ">>,
    <<"K", "y", "l", "e">> }

FormCutoffTime == <<"1", "4", ":", "3", "0">>

SlotTimes ==
  { [startTime |-> <<"0", "9", ":", "0", "0">>,
     endTime |-> <<"1", "2", ":", "0", "0">>] }

\* The ids a request may name: those given so far and the next one.
RecordIds == 1..(MaxRecords + 1)

\* What updateCity is given: a new name, or a new isActive.
CityUpdates ==
  {[name |-> n] : n \in {<<"K", "y", "l", "e">>}}
    \cup {[isActive |-> a] : a \in BOOLEAN}

\* What updateTimeSlot is given: new times, or a new isActive.
SlotUpdates ==
  { [startTime |-> <<"1", "2", ":", "0", "0">>,
     endTime |-> <<"1", "5", ":", "0", "0">>] }
    \cup {[isActive |-> a] : a \in BOOLEAN}

\* The create requests of the city list page: a shop and a name.
CreateRequests == {[shop |-> s, name |-> n] : s \in Shops, n \in CityNames}

NoneInflight == [r \in CreateRequests |-> 0]

RECURSIVE SumOver(_, _)
SumOver(f, keys) ==
  IF keys = {}
  THEN 0
  ELSE LET k == CHOOSE k \in keys : TRUE
       IN  f[k] + SumOver(f, keys \ {k})

\* The create requests between their check and their insert.
InflightCount == SumOver(inflight, CreateRequests)

(***************************************************************************)
(* The state machine: one action per exported function.                    *)
(***************************************************************************)
Init ==
  /\ op = "idle"
  /\ args = <<>>
  /\ ret = <<>>
  /\ exc = FALSE
  /\ heap = <<>>
  /\ db = EmptyDb
  /\ inflight = NoneInflight

Complete(name, a, completion) ==
  /\ op' = name
  /\ args' = a
  /\ ret' = completion.value
  /\ exc' = completion.threw
  /\ UNCHANGED <<heap, db, inflight>>

CallParseDelayFromTag ==
  /\ op = "idle"
  /\ \/ \E l \in TagPadsLeft, r \in TagPadsRight, n \in 0..MaxTagParts :
          \E ps \in [1..n -> TagParts] :
            LET tag == JsString(l \o Concat(ps) \o r)
            IN  Complete("parseDelayFromTag", [tag |-> tag],
                         parseDelayFromTag(tag))
     \/ \E tag \in AbsentTags :
          Complete("parseDelayFromTag", [tag |-> tag], parseDelayFromTag(tag))

CallCalculateCartDelay ==
  /\ op = "idle"
  /\ \/ \E n \in 0..MaxProducts :
          \E ps \in [1..n -> CartProducts] :
            Complete("calculateCartDelay", [products |-> JsArray(ps)],
                     calculateCartDelay(JsArray(ps)))
     \/ \E products \in AbsentCarts :
          Complete("calculateCartDelay", [products |-> products],
                   calculateCartDelay(products))

NextCart == CallParseDelayFromTag \/ CallCalculateCartDelay

CallNormalizeDate ==
  /\ op = "idle"
  /\ \E dateStr \in DateInputs :
       /\ op' = "normalizeDate"
       /\ args' = [dateStr |-> dateStr]
       /\ ret' = normalizeDate(dateStr)
       /\ exc' = FALSE
       /\ UNCHANGED <<heap, db, inflight>>

CallGetAvailableDates ==
  /\ op = "idle"
  /\ \E civil \in WindowStartDays, daysToShow \in WindowSizes :
       \/ \E minute \in WindowStartMinutes, n \in 0..MaxDisabled :
            \E entries \in [1..n -> DisabledEntries] :
              LET startDate == DateAt(civil, minute \div MinutesPerHour,
                                      minute % MinutesPerHour)
              IN  /\ op' = "getAvailableDates"
                  /\ args' = [startDay |-> civil, startDate |-> startDate,
                              daysToShow |-> daysToShow,
                              disabledDates |-> JsArray(entries),
                              cityId |-> NoCity]
                  /\ ret' = getAvailableDates(startDate, daysToShow,
                                              JsArray(entries), NoCity)
                  /\ exc' = FALSE
                  /\ UNCHANGED <<heap, db, inflight>>
       \/ /\ daysToShow = MaxWindow
          /\ \E cityId \in {NoCity, 1, 2}, n \in 1..MaxDateRules :
            \E rules \in [1..n -> DateRules] :
              LET startDate == DateAt(civil, 0, 0)
              IN  /\ op' = "getAvailableDates"
                  /\ args' = [startDay |-> civil, startDate |-> startDate,
                              daysToShow |-> daysToShow,
                              disabledDates |-> JsArray(rules),
                              cityId |-> cityId]
                  /\ ret' = getAvailableDates(startDate, daysToShow,
                                              JsArray(rules), cityId)
                  /\ exc' = FALSE
                  /\ UNCHANGED <<heap, db, inflight>>

NextDate == CallNormalizeDate

NextWindow == CallGetAvailableDates

CallGetMinimumDeliveryDate ==
  /\ op = "idle"
  /\ \E city \in Cities, civil \in NowDays, hours \in NowHours,
        minutes \in NowMinutes, baseDelay \in CartDelays :
       /\ op' = "getMinimumDeliveryDate"
       /\ args' = [city |-> city, nowDay |-> civil, nowHours |-> hours,
                   nowMinutes |-> minutes,
                   currentTime |-> DateAt(civil, hours, minutes),
                   baseDelay |-> baseDelay]
       /\ ret' = getMinimumDeliveryDate(city, DateAt(civil, hours, minutes),
                                        baseDelay)
       /\ exc' = FALSE
       /\ UNCHANGED <<heap, db, inflight>>

CallIsBeforeCutoff ==
  /\ op = "idle"
  /\ \E cutoffTime \in CutoffTimes, civil \in NowDays, hours \in NowHours,
        minutes \in NowMinutes :
       /\ op' = "isBeforeCutoff"
       /\ args' = [cutoffTime |-> cutoffTime, nowDay |-> civil,
                   nowHours |-> hours, nowMinutes |-> minutes,
                   currentTime |-> DateAt(civil, hours, minutes)]
       /\ ret' = isBeforeCutoff(cutoffTime, DateAt(civil, hours, minutes))
       /\ exc' = FALSE
       /\ UNCHANGED <<heap, db, inflight>>

CallIsSameDayDeliveryAvailable ==
  /\ op = "idle"
  /\ \E city \in Cities, civil \in NowDays, hours \in NowHours,
        minutes \in NowMinutes :
       /\ op' = "isSameDayDeliveryAvailable"
       /\ args' = [city |-> city, nowDay |-> civil, nowHours |-> hours,
                   nowMinutes |-> minutes,
                   currentTime |-> DateAt(civil, hours, minutes)]
       /\ ret' = isSameDayDeliveryAvailable(city,
                                            DateAt(civil, hours, minutes))
       /\ exc' = FALSE
       /\ UNCHANGED <<heap, db, inflight>>

CallGetTimeUntilCutoff ==
  /\ op = "idle"
  /\ \E city \in Cities, civil \in NowDays, hours \in NowHours,
        minutes \in NowMinutes :
       /\ op' = "getTimeUntilCutoff"
       /\ args' = [city |-> city, nowDay |-> civil, nowHours |-> hours,
                   nowMinutes |-> minutes,
                   currentTime |-> DateAt(civil, hours, minutes)]
       /\ ret' = getTimeUntilCutoff(city, DateAt(civil, hours, minutes))
       /\ exc' = FALSE
       /\ UNCHANGED <<heap, db, inflight>>

CallParseTime ==
  /\ op = "idle"
  /\ \E timeStr \in TimeInputs :
       /\ op' = "parseTime"
       /\ args' = [timeStr |-> timeStr]
       /\ ret' = parseTime(timeStr)
       /\ exc' = FALSE
       /\ UNCHANGED <<heap, db, inflight>>

NextCutoff ==
  \/ CallParseTime
  \/ CallIsBeforeCutoff
  \/ CallIsSameDayDeliveryAvailable
  \/ CallGetMinimumDeliveryDate
  \/ CallGetTimeUntilCutoff

CallCheckSlotAvailability ==
  /\ op = "idle"
  /\ \E slot \in TimeSlots, date \in SlotDates,
        cityId \in CityIds \cup {NoCity}, n \in 0..MaxRules :
     \E rules \in [1..n -> SlotDisableRules] :
       /\ op' = "checkSlotAvailability"
       /\ args' = [slot |-> slot, date |-> date, cityId |-> cityId,
                   rules |-> rules]
       /\ ret' = checkSlotAvailability(slot, date, cityId, rules)
       /\ exc' = FALSE
       /\ UNCHANGED <<heap, db, inflight>>

\* The list arguments of the batch calls: arrays, or a missing value.
BatchSlotArgs == {JsArray(slots) : slots \in SlotLists} \cup AbsentLists

BatchRuleArgs ==
  {JsArray(rules) : rules \in SeqsUpTo(BatchRules, MaxRules)} \cup AbsentLists

CallGetAvailableSlots ==
  /\ op = "idle"
  /\ \E slots \in BatchSlotArgs, date \in SlotDates,
        cityId \in CityIds \cup {NoCity}, rules \in BatchRuleArgs :
       Complete("getAvailableSlots",
                [slots |-> slots, date |-> date, cityId |-> cityId,
                 rules |-> rules],
                Normal(getAvailableSlots(slots, date, cityId, rules)))

CallGetEnabledSlots ==
  /\ op = "idle"
  /\ \E slots \in BatchSlotArgs, date \in SlotDates,
        cityId \in CityIds \cup {NoCity}, rules \in BatchRuleArgs :
       Complete("getEnabledSlots",
                [slots |-> slots, date |-> date, cityId |-> cityId,
                 rules |-> rules],
                Normal(getEnabledSlots(slots, date, cityId, rules)))

CallIsSlotAvailable ==
  /\ op = "idle"
  /\ \E slotId \in SlotIds, slots \in BatchSlotArgs, date \in SlotDates,
        cityId \in CityIds \cup {NoCity}, rules \in BatchRuleArgs :
       Complete("isSlotAvailable",
                [slotId |-> slotId, slots |-> slots, date |-> date,
                 cityId |-> cityId, rules |-> rules],
                isSlotAvailable(slotId, slots, date, cityId, rules))

NextSlot ==
  \/ CallCheckSlotAvailability
  \/ CallGetAvailableSlots
  \/ CallGetEnabledSlots
  \/ CallIsSlotAvailable

CallValidatePhoneNumber ==
  /\ op = "idle"
  /\ \/ \E n \in 0..MaxPhoneParts :
          \E ps \in [1..n -> PhoneParts] :
            /\ op' = "validatePhoneNumber"
            /\ args' = [phoneNumber |-> JsString(Concat(ps))]
            /\ ret' = validatePhoneNumber(JsString(Concat(ps)))
            /\ exc' = FALSE
            /\ UNCHANGED <<heap, db, inflight>>
     \/ \E phoneNumber \in AbsentStrings :
          /\ op' = "validatePhoneNumber"
          /\ args' = [phoneNumber |-> phoneNumber]
          /\ ret' = validatePhoneNumber(phoneNumber)
          /\ exc' = FALSE
          /\ UNCHANGED <<heap, db, inflight>>

CallValidateDeliveryDate ==
  /\ op = "idle"
  /\ \E deliveryDate \in DateInputs :
       /\ op' = "validateDeliveryDate"
       /\ args' = [deliveryDate |-> deliveryDate]
       /\ ret' = validateDeliveryDate(deliveryDate)
       /\ exc' = FALSE
       /\ UNCHANGED <<heap, db, inflight>>

CallValidateDeliveryTimeSlot ==
  /\ op = "idle"
  /\ \E deliveryTimeSlot \in SlotValues :
       /\ op' = "validateDeliveryTimeSlot"
       /\ args' = [deliveryTimeSlot |-> deliveryTimeSlot]
       /\ ret' = validateDeliveryTimeSlot(deliveryTimeSlot)
       /\ exc' = FALSE
       /\ UNCHANGED <<heap, db, inflight>>

CallValidateCheckout ==
  /\ op = "idle"
  /\ \E fullName \in FullNames, phoneNumber \in PhoneNumbers,
        deliveryAddress \in DeliveryAddresses, deliveryDate \in DeliveryDates,
        deliveryTimeSlot \in CheckoutSlots :
       LET fields == [fullName |-> fullName, phoneNumber |-> phoneNumber,
                      deliveryAddress |-> deliveryAddress,
                      deliveryDate |-> deliveryDate,
                      deliveryTimeSlot |-> deliveryTimeSlot]
       IN  /\ op' = "validateCheckout"
           /\ args' = [fields |-> fields]
           /\ ret' = validateCheckout(fields)
           /\ exc' = FALSE
           /\ UNCHANGED <<heap, db, inflight>>

NextCheckout ==
  \/ CallValidatePhoneNumber
  \/ CallValidateDeliveryDate
  \/ CallValidateDeliveryTimeSlot
  \/ CallValidateCheckout

CallCheckSlotAvailabilityOfHandle ==
  /\ op = "idle"
  /\ \E slot \in HandleSlots, date \in SlotDates,
        cityId \in CityHandles \cup {NoCityHandle}, n \in 0..MaxRules :
     \E rules \in [1..n -> HandleRules] :
       /\ op' = "checkSlotAvailability of handles"
       /\ args' = [slot |-> slot, date |-> date, cityId |-> cityId,
                   rules |-> rules]
       /\ ret' = checkSlotAvailabilityOfHandle(slot, date, cityId, rules)
       /\ exc' = FALSE
       /\ UNCHANGED <<heap, db, inflight>>

NextHandleSlot == CallCheckSlotAvailabilityOfHandle

SpecHandleSlot == Init /\ [][NextHandleSlot]_vars

\* A first call: the caller's objects are the heap before it, and done is
\* what the function returns on it.
FirstCall(fn, params, before, done) ==
  /\ op' = "call"
  /\ args' = [fn |-> fn, params |-> params, before |-> before]
  /\ ret' = done.value
  /\ exc' = FALSE
  /\ heap' = done.heap
  /\ UNCHANGED <<db, inflight>>

CallAddDaysOnHeap ==
  /\ op = "idle"
  /\ \E civil \in NowDays, hours \in NowHours, minutes \in NowMinutes,
        days \in DayCounts :
       /\ FirstCall("addDays", [date |-> 1, days |-> days],
                    <<DateAt(civil, hours, minutes)>>,
                    addDaysOnHeap(<<DateAt(civil, hours, minutes)>>, 1, days))

CallGetMinimumDeliveryDateOnHeap ==
  /\ op = "idle"
  /\ \E city \in Cities, civil \in NowDays, hours \in NowHours,
        minutes \in NowMinutes, baseDelay \in CartDelays :
       /\ FirstCall("getMinimumDeliveryDate",
                    [city |-> city, currentTime |-> 1, baseDelay |-> baseDelay],
                    <<DateAt(civil, hours, minutes)>>,
                    getMinimumDeliveryDateOnHeap(
                      <<DateAt(civil, hours, minutes)>>, city, 1, baseDelay))

CallGetAvailableDatesOnHeap ==
  /\ op = "idle"
  /\ \E civil \in WindowStartDays, minute \in WindowStartMinutes,
        daysToShow \in {0, MaxWindow} :
       LET startDate == DateAt(civil, minute \div MinutesPerHour,
                               minute % MinutesPerHour)
       IN  \/ \E n \in 0..MaxDisabled :
                \E entries \in [1..n -> DisabledEntries] :
                  FirstCall("getAvailableDates",
                            [startDate |-> 1, daysToShow |-> daysToShow,
                             disabledDates |-> 2, cityId |-> NoCity],
                            <<startDate, JsArray(entries)>>,
                            getAvailableDatesOnHeap(
                              <<startDate, JsArray(entries)>>, 1, daysToShow,
                              2, NoCity))
           \/ /\ daysToShow = MaxWindow
              /\ \E n \in 1..MaxDateRules :
                   \E rules \in [1..n -> DateRules] :
                     FirstCall("getAvailableDates",
                               [startDate |-> 1, daysToShow |-> daysToShow,
                                disabledDates |-> 2, cityId |-> 1],
                               <<startDate, JsArray(rules)>>,
                               getAvailableDatesOnHeap(
                                 <<startDate, JsArray(rules)>>, 1, daysToShow,
                                 2, 1))

\* A second call: done is what the function returns on the heap the first
\* call left.
SecondCall(done) ==
  /\ op' = "again"
  /\ args' = [fn |-> args.fn, params |-> args.params,
              before |-> args.before, first |-> heap[ret],
              between |-> heap]
  /\ ret' = done.value
  /\ exc' = FALSE
  /\ heap' = done.heap
  /\ UNCHANGED <<db, inflight>>

\* The same call once more, with the same references, on the heap the first
\* call left.
CallAgain ==
  /\ op = "call"
  /\ \/ /\ args.fn = "addDays"
        /\ SecondCall(addDaysOnHeap(heap, args.params.date, args.params.days))
     \/ /\ args.fn = "getMinimumDeliveryDate"
        /\ SecondCall(getMinimumDeliveryDateOnHeap(
                        heap, args.params.city, args.params.currentTime,
                        args.params.baseDelay))
     \/ /\ args.fn = "getAvailableDates"
        /\ SecondCall(getAvailableDatesOnHeap(
                        heap, args.params.startDate, args.params.daysToShow,
                        args.params.disabledDates, args.params.cityId))

NextHeap ==
  \/ CallAddDaysOnHeap
  \/ CallGetMinimumDeliveryDateOnHeap
  \/ CallGetAvailableDatesOnHeap
  \/ CallAgain

SpecHeap == Init /\ [][NextHeap]_vars

(***************************************************************************)
(* The configuration service called on the database.                       *)
(***************************************************************************)
\* A call of a service function: what it returned or raised, and the
\* database it left.
ServiceCall(name, a, done) ==
  /\ op' = name
  /\ args' = a
  /\ ret' = done.completion.value
  /\ exc' = done.completion.threw
  /\ db' = done.db
  /\ UNCHANGED <<heap, inflight>>

CallCreateCity ==
  /\ db.lastCityId + db.lastSlotId < MaxRecords
  /\ \E shop \in Shops, name \in CityNames :
       LET data == [name |-> name, isSpecial |-> FALSE,
                    cutoffTime |-> FormCutoffTime]
       IN  ServiceCall("createCity", [shop |-> shop, data |-> data],
                       createCity(db, shop, data))

CallUpdateCity ==
  \E shop \in Shops, cityId \in RecordIds, data \in CityUpdates :
    /\ ServiceCall("updateCity",
                   [shop |-> shop, cityId |-> cityId, data |-> data],
                   updateCity(db, shop, cityId, data))

CallCreateTimeSlot ==
  /\ db.lastCityId + db.lastSlotId < MaxRecords
  /\ \E shop \in Shops, data \in SlotTimes :
       ServiceCall("createTimeSlot", [shop |-> shop, data |-> data],
                   createTimeSlot(db, shop, data))

CallUpdateTimeSlot ==
  \E shop \in Shops, slotId \in RecordIds, data \in SlotUpdates :
    /\ ServiceCall("updateTimeSlot",
                   [shop |-> shop, slotId |-> slotId, data |-> data],
                   updateTimeSlot(db, shop, slotId, data))

NextConfigService ==
  \/ CallCreateCity
  \/ CallUpdateCity
  \/ CallCreateTimeSlot
  \/ CallUpdateTimeSlot

SpecConfigService == Init /\ [][NextConfigService]_vars

(***************************************************************************)
(* The city pages.  A request is served for the shop of its session.  The  *)
(* create of the list page awaits loadCities and then createCity: other    *)
(* requests are served between the two, so it is two steps, and inflight   *)
(* counts the requests that stand between them.  Every other handler       *)
(* awaits one query.                                                       *)
(***************************************************************************)
\* What a handler answered, and the database it left.
Respond(name, a, response, threw, d, requests) ==
  /\ op' = name
  /\ args' = a
  /\ ret' = response
  /\ exc' = threw
  /\ db' = d
  /\ inflight' = requests
  /\ UNCHANGED heap

\* loader of app.delivery.cities.tsx
CityListLoader ==
  \E shop \in Shops :
    /\ Respond("loadCities", [shop |-> shop],
               [cities |-> loadCities(db, shop)], FALSE, db, inflight)

CallGetCityById ==
  \E shop \in Shops, cityId \in RecordIds :
    /\ Respond("getCityById", [shop |-> shop, cityId |-> cityId],
               getCityById(db, shop, cityId), FALSE, db, inflight)

\* existingCities.some(city => city.name.toLowerCase()
\*                             === name.trim().toLowerCase())
cityExists(existingCities, name) ==
  \E i \in 1..Len(existingCities) :
    ToLowerCase(existingCities[i].name) = ToLowerCase(Trim(name))

\* intent "create" up to its answer or to the await of createCity.
CityListCreateCheck ==
  \E request \in CreateRequests :
    IF cityExists(loadCities(db, request.shop), request.name)
    THEN Respond("create city", request,
                 [success |-> FALSE, error |-> "already exists"], FALSE,
                 db, inflight)
    ELSE /\ db.lastCityId + InflightCount < MaxRecords
         /\ Respond("create city checked", request, <<>>, FALSE, db,
                    [inflight EXCEPT ![request] = @ + 1])

\* intent "create" from createCity on.
CityListCreateInsert ==
  \E request \in CreateRequests :
    /\ inflight[request] > 0
    /\ LET done == createCity(db, request.shop,
                              [name |-> Trim(request.name),
                               isSpecial |-> FALSE,
                               cutoffTime |-> FormCutoffTime])
       IN  Respond("create city", request,
                   [success |-> TRUE, city |-> done.completion.value],
                   FALSE, done.db, [inflight EXCEPT ![request] = @ - 1])

\* intent "update"
CityListUpdate ==
  \E shop \in Shops, id \in RecordIds, name \in CityNames :
    LET done == updateCity(db, shop, id,
                           [name |-> Trim(name), isSpecial |-> FALSE,
                            cutoffTime |-> FormCutoffTime])
        updated == done.completion
    IN  /\ Respond("update city",
                   [shop |-> shop, id |-> id, name |-> name],
                   IF updated.threw
                   THEN [success |-> FALSE, error |-> "record not found"]
                   ELSE IF updated.value = JsNull
                   THEN [success |-> FALSE, error |-> "City not found"]
                   ELSE [success |-> TRUE, city |-> updated.value],
                   FALSE, done.db, inflight)

\* intent "delete": the answer does not depend on what updateCity returned.
CityListDelete ==
  \E shop \in Shops, id \in RecordIds :
    LET done == updateCity(db, shop, id, [isActive |-> FALSE])
    IN  /\ Respond("delete city", [shop |-> shop, id |-> id],
                   IF done.completion.threw
                   THEN [success |-> FALSE, error |-> "record not found"]
                   ELSE [success |-> TRUE],
                   FALSE, done.db, inflight)

NextCityList ==
  \/ CityListLoader
  \/ CallGetCityById
  \/ CityListCreateCheck
  \/ CityListCreateInsert
  \/ CityListUpdate
  \/ CityListDelete

SpecCityList == Init /\ [][NextCityList]_vars

\* The page of a new city (src/unnamed/part_000): db.city.create of the
\* name as it was typed; isActive takes the default of the column.
NewCityCreate ==
  /\ db.lastCityId + InflightCount < MaxRecords
  /\ \E shop \in Shops, name \in CityNames :
       LET done == createCity(db, shop,
                              [name |-> name, isSpecial |-> FALSE,
                               cutoffTime |-> FormCutoffTime])
       IN  Respond("new city", [shop |-> shop, name |-> name],
                   [redirect |-> "/app/delivery/cities"], FALSE, done.db,
                   inflight)

\* The rows of db.city.update or delete ({ where: { id: cityId, shop } }).
CityOfShop(shop, cityId) ==
  {c \in db.cities : c.id = cityId /\ c.shop = shop}

\* The page of one city (src/unnamed/part_001), intent "update".
EditCityUpdate ==
  \E shop \in Shops, cityId \in RecordIds, name \in CityNames :
    LET found == CityOfShop(shop, cityId)
        a == [shop |-> shop, id |-> cityId, name |-> name]
    IN  IF found = {}
        THEN Respond("edit city", a, <<>>, TRUE, db, inflight)
        ELSE LET old == CHOOSE c \in found : TRUE
                 city == UpdatedCity(old, [name |-> name,
                                           cutoffTime |-> FormCutoffTime,
                                           isSpecial |-> FALSE])
             IN  Respond("edit city", a,
                         [redirect |-> "/app/delivery/cities"], FALSE,
                         [db EXCEPT !.cities = (@ \ {old}) \cup {city}],
                         inflight)

\* The page of one city, intent "delete": db.city.delete.
EditCityDelete ==
  \E shop \in Shops, cityId \in RecordIds :
    LET found == CityOfShop(shop, cityId)
        a == [shop |-> shop, id |-> cityId]
    IN  IF found = {}
        THEN Respond("remove city", a, <<>>, TRUE, db, inflight)
        ELSE Respond("remove city", a,
                     [redirect |-> "/app/delivery/cities"], FALSE,
                     [db EXCEPT !.cities = @ \ found], inflight)

NextCityPages ==
  \/ NextCityList
  \/ NewCityCreate
  \/ EditCityUpdate
  \/ EditCityDelete

SpecCityPages == Init /\ [][NextCityPages]_vars

RouteCall(city, civil, hours, minutes, cart, daysToShow, disabled) ==
  Complete("availableDates of the route",
           [city |-> city, nowDay |-> civil, nowHours |-> hours,
            nowMinutes |-> minutes,
            currentTime |-> DateAt(civil, hours, minutes),
            products |-> cart, daysToShow |-> daysToShow,
            disabledDates |-> disabled],
           routeAvailableDates(city, DateAt(civil, hours, minutes), cart,
                               daysToShow, disabled))

\* The route's calculation: at every instant for every city and cart, and
\* at 14:30 for every disable source.
CallRouteAvailableDates ==
  /\ op = "idle"
  /\ \/ \E selectedCity \in SelectedCities, civil \in NowDays,
           hours \in NowHours, minutes \in NowMinutes,
           cartProducts \in RouteCarts :
          /\ RouteCall(selectedCity, civil, hours, minutes, cartProducts,
                       MaxWindow, ConfigDisabledDates)
     \/ \E selectedCity \in SourceCities, civil \in SourceDays,
           cartProducts \in SourceCarts,
           daysToShow \in {MaxWindow, 2 * MaxWindow},
           disabledDates \in DisableSources :
          /\ RouteCall(selectedCity, civil, 14, 30, cartProducts, daysToShow,
                       disabledDates)

NextRoute == CallRouteAvailableDates

SpecRoute == Init /\ [][NextRoute]_vars

CallIsDateInDisableRange ==
  /\ op = "idle"
  /\ \E date \in RangeDates, startDate \in RangeDates,
        endDate \in RangeEndDates :
       /\ op' = "isDateInDisableRange"
       /\ args' = [date |-> date, startDate |-> startDate,
                   endDate |-> endDate]
       /\ ret' = isDateInDisableRange(date, startDate, endDate)
       /\ exc' = FALSE
       /\ UNCHANGED <<heap, db, inflight>>

NextRange == CallIsDateInDisableRange

SpecRange == Init /\ [][NextRange]_vars

\* formatDateToString(parseDate(s)): date.getFullYear() of null raises a
\* TypeError.
CallFormatOfParse ==
  /\ op = "idle"
  /\ \E s \in RoundTripStrings :
       LET parsed == parseDate(JsString(s))
       IN  /\ Complete("formatDateToString of parseDate", [dateStr |-> s],
                       IF parsed.type = "null"
                       THEN Throw
                       ELSE Normal(formatDateToString(parsed.date)))

\* parseDate(formatDateToString(d)) of a Date of local midnight.
CallParseOfFormat ==
  /\ op = "idle"
  /\ \E civil \in RoundTripDays :
       /\ Complete("parseDate of formatDateToString",
                   [day |-> civil, date |-> MidnightOf(civil)],
                   Normal(parseDate(JsString(
                            formatDateToString(MidnightOf(civil))))))

\* addDays(addDays(d, n), -n).
CallAddDaysBack ==
  /\ op = "idle"
  /\ \E civil \in NowDays, minute \in WindowStartMinutes,
        days \in CartDelays :
       LET date == DateAt(civil, minute \div MinutesPerHour,
                          minute % MinutesPerHour)
       IN  /\ Complete("addDays and back",
                       [day |-> civil, date |-> date, days |-> days],
                       Normal(addDays(addDays(date, days), 0 - days)))

NextRoundTrip == CallFormatOfParse \/ CallParseOfFormat \/ CallAddDaysBack

SpecRoundTrip == Init /\ [][NextRoundTrip]_vars

SpecCheckout == Init /\ [][NextCheckout]_vars

SpecCart == Init /\ [][NextCart]_vars

SpecDate == Init /\ [][NextDate]_vars

SpecWindow == Init /\ [][NextWindow]_vars

SpecCutoff == Init /\ [][NextCutoff]_vars

SpecSlot == Init /\ [][NextSlot]_vars

(***************************************************************************)
(* Properties of the cart delay calculator.                                *)
(***************************************************************************)
SetMax(S) == CHOOSE m \in S : \A x \in S : x <= m

\* The string without the white space at its two ends, stated by positions.
Trimmed(s) ==
  LET inked == {i \in 1..Len(s) : s[i] \notin WhiteSpace}
  IN  IF inked = {} THEN <<>>
      ELSE SubSeq(s, SetMax({0 - i : i \in inked}) * (0 - 1), SetMax(inked))

\* The value of a string of decimal digits, from its last digit.
RECURSIVE DecimalValue(_)
DecimalValue(ds) ==
  IF ds = <<>> THEN 0
  ELSE 10 * DecimalValue(SubSeq(ds, 1, Len(ds) - 1)) + DigitValue(ds[Len(ds)])

DelayWords == {TagDelay, TagCake \o TagDelay}

\* The digit suffixes N for which n is a delay word followed by -N.
DelaySuffixes(n) ==
  { Drop(n, Len(w) + 1) : w \in
      { w \in DelayWords :
          /\ Len(n) >= Len(w) + 2
          /\ SubSeq(n, 1, Len(w)) = w
          /\ n[Len(w) + 1] = "-"
          /\ \A i \in (Len(w) + 2)..Len(n) : n[i] \in DigitChars } }

\* What ^(cake-)?delay(-\d+)?$ assigns to a tag after trimming and
\* lower-casing: the suffix, 1 without a suffix, 0 when it does not match.
ExpectedTagDelay(s) ==
  LET n == ToLowerCase(Trimmed(s))
  IN  IF n \in DelayWords THEN 1
      ELSE IF DelaySuffixes(n) # {}
      THEN DecimalValue(CHOOSE ds \in DelaySuffixes(n) : TRUE)
      ELSE 0

\* C8: for every string tag, parseDelayFromTag returns the decimal value of
\* the digit suffix when the trimmed, lower-cased tag matches
\* ^(cake-)?delay(-\d+)?$ with a suffix, 1 when it matches without a suffix,
\* and 0 for every other string.
C8_TagDelayOfPattern ==
  (op = "parseDelayFromTag" /\ args.tag.type = "string")
    => (~exc /\ ret = ExpectedTagDelay(args.tag.chars))

\* C8 witness: ' CAKE-DELAY-3 ' was parsed and gave 3.
C8_Witness ==
  /\ op = "parseDelayFromTag"
  /\ args.tag =
       JsString(<<" ", "C", "A", "K", "E", "-", "D", "E", "L", "A", "Y", "-", "3", " ">>)
  /\ ~exc
  /\ ret = 3

\* C9 (as claimed): parseDelayFromTag never raises, and returns 0 for an
\* absent tag (null or undefined).
C9_ParseDelayTotal ==
  op = "parseDelayFromTag"
    => (~exc /\ (args.tag.type \in {"null", "undefined"} => ret = 0))

\* The largest delay of one product: 0 when tags is not an array.
ProductMaxDelay(product) ==
  IF product.tags.type # "array" THEN 0
  ELSE SetMax({0} \cup { parseDelayFromTag(product.tags.items[i]).value :
                           i \in 1..Len(product.tags.items) })

CartMaxDelay(products) ==
  IF products.type # "array" THEN 0
  ELSE SetMax({0} \cup { ProductMaxDelay(products.items[i]) :
                           i \in 1..Len(products.items) })

\* C7: calculateCartDelay returns the maximum over the products of the
\* maximum of parseDelayFromTag over the product's tags; 0 for an empty cart;
\* a product whose tags are absent or not an array contributes 0; the
\* result is never negative.
C7_CartDelayIsMax ==
  op = "calculateCartDelay"
    => (~exc /\ ret = CartMaxDelay(args.products) /\ ret >= 0)

\* C7 witness: a cart of a 1-day product, a 3-day product and a product
\* without a tags array gave 3, not the sum 4.
C7_Witness ==
  /\ op = "calculateCartDelay"
  /\ args.products.type = "array"
  /\ Len(args.products.items) = 2
  /\ ProductMaxDelay(args.products.items[1]) = 1
  /\ ProductMaxDelay(args.products.items[2]) = 3
  /\ ret = 3

(***************************************************************************)
(* Properties of the date normalizer.                                      *)
(***************************************************************************)
LeapYear(y) == (y % 4 = 0 /\ y % 100 # 0) \/ y % 400 = 0

\* The length of month m (1 = January) of year y in the civil calendar.
MonthLength(y, m) ==
  IF m = 2 THEN (IF LeapYear(y) THEN 29 ELSE 28)
  ELSE IF m \in {4, 6, 9, 11} THEN 30 ELSE 31

RealCalendarDate(y, m, d) ==
  m \in 1..12 /\ d \in 1..MonthLength(y, m)

DigitsAt(s, from, to) == \A i \in from..to : s[i] \in DigitChars

\* The canonical string the claim assigns to an input, or null.
ExpectedNormalizeDate(chars) ==
  LET t == Trimmed(chars)
      iso == /\ Len(t) = 10 /\ t[5] = "-" /\ t[8] = "-"
             /\ DigitsAt(t, 1, 4) /\ DigitsAt(t, 6, 7) /\ DigitsAt(t, 9, 10)
      euro == /\ Len(t) = 10 /\ t[3] = "/" /\ t[6] = "/"
              /\ DigitsAt(t, 1, 2) /\ DigitsAt(t, 4, 5) /\ DigitsAt(t, 7, 10)
  IN  IF iso
      THEN IF RealCalendarDate(DecimalValue(SubSeq(t, 1, 4)),
                               DecimalValue(SubSeq(t, 6, 7)),
                               DecimalValue(SubSeq(t, 9, 10)))
           THEN JsString(t) ELSE JsNull
      ELSE IF euro
      THEN IF RealCalendarDate(DecimalValue(SubSeq(t, 7, 10)),
                               DecimalValue(SubSeq(t, 4, 5)),
                               DecimalValue(SubSeq(t, 1, 2)))
           THEN JsString(SubSeq(t, 7, 10) \o <<"-">> \o SubSeq(t, 4, 5)
                           \o <<"-">> \o SubSeq(t, 1, 2))
           ELSE JsNull
      ELSE JsNull

\* C10 (as claimed): normalizeDate returns the canonical YYYY-MM-DD string
\* for every input in YYYY-MM-DD or DD/MM/YYYY form that names a real
\* calendar date, and null for every other input.
C10_NormalizeDate ==
  (op = "normalizeDate" /\ args.dateStr.type = "string")
    => ret = ExpectedNormalizeDate(args.dateStr.chars)

(***************************************************************************)
(* Properties of the cutoff service.                                       *)
(***************************************************************************)
\* The civil day after a civil day.
CivilNext(c) ==
  IF c.date < MonthLength(c.year, c.month)
  THEN [c EXCEPT !.date = c.date + 1]
  ELSE IF c.month < 12
  THEN [year |-> c.year, month |-> c.month + 1, date |-> 1]
  ELSE [year |-> c.year + 1, month |-> 1, date |-> 1]

RECURSIVE CivilPlus(_, _)
CivilPlus(c, n) == IF n = 0 THEN c ELSE CivilPlus(CivilNext(c), n - 1)

CivilOf(date) ==
  [year |-> getFullYear(date), month |-> getMonth(date) + 1,
   date |-> getDate(date)]

\* C1: getMinimumDeliveryDate returns local midnight of now's civil date
\* plus cartDelay days when isSameDayDeliveryAvailable(city, now) is true and
\* plus cartDelay + 1 days otherwise, across month and year boundaries.
C1_MinimumDeliveryDate ==
  op = "getMinimumDeliveryDate"
    => LET offset == IF isSameDayDeliveryAvailable(args.city, args.currentTime)
                     THEN args.baseDelay
                     ELSE args.baseDelay + 1
       IN  /\ ret.minute = 0
           /\ CivilOf(ret) = CivilPlus(args.nowDay, offset)

\* C1 witness: at 14:30 on 31 December 2024, the cutoff of 14:30 reached,
\* a cart delay of 2 gave 3 January 2025.
C1_Witness ==
  /\ op = "getMinimumDeliveryDate"
  /\ args.nowDay = [year |-> 2024, month |-> 12, date |-> 31]
  /\ args.nowHours = 14 /\ args.nowMinutes = 30
  /\ args.city.cutoffTime = JsString(<<"1", "4", ":", "3", "0">>)
  /\ args.baseDelay = 2
  /\ ~isSameDayDeliveryAvailable(args.city, args.currentTime)
  /\ CivilOf(ret) = [year |-> 2025, month |-> 1, date |-> 3]

\* The time of day a cutoff string names: after trimming, one or two
\* digits of hours up to 23, a colon and two digits of minutes up to 59.
ClockTime(v) ==
  LET t == IF v.type = "string" THEN Trimmed(v.chars) ELSE <<>>
      shaped == /\ Len(t) \in {4, 5}
                /\ t[Len(t) - 2] = ":"
                /\ \A i \in 1..Len(t) : i # Len(t) - 2 => t[i] \in DigitChars
      hours == DecimalValue(SubSeq(t, 1, Len(t) - 3))
      minutes == DecimalValue(SubSeq(t, Len(t) - 1, Len(t)))
  IN  IF shaped /\ hours <= 23 /\ minutes <= 59
      THEN [valid |-> TRUE, hours |-> hours, minutes |-> minutes]
      ELSE [valid |-> FALSE, hours |-> 0, minutes |-> 0]

\* C23: parseTime returns the hours and minutes of every string that, once
\* trimmed, is one or two digits of hours up to 23, a colon and two digits
\* of minutes up to 59, and null for every other value.
C23_ParseTime ==
  op = "parseTime" =>
    LET c == ClockTime(args.timeStr)
    IN  IF c.valid
        THEN ret = [type |-> "time", hours |-> c.hours, minutes |-> c.minutes]
        ELSE ret = JsNull

\* C23 witness: " 9:05 " gave 9 hours and 5 minutes.
C23_Witness ==
  /\ op = "parseTime"
  /\ args.timeStr = JsString(<<" ", "9", ":", "0", "5", " ">>)
  /\ ret = [type |-> "time", hours |-> 9, minutes |-> 5]

\* now's (hour, minute) is strictly earlier than the time of day c.
EarlierThan(c) ==
  \/ args.nowHours < c.hours
  \/ (args.nowHours = c.hours /\ args.nowMinutes < c.minutes)

\* C13: isBeforeCutoff(cutoff, now) is true exactly when the cutoff string
\* names a time of day and now's (hour, minute) is strictly earlier; in the
\* cutoff minute and later it is false, and for a cutoff that names no time
\* of day it is false at every time.
C13_BeforeCutoffIsStrict ==
  op = "isBeforeCutoff"
    => LET c == ClockTime(args.cutoffTime)
       IN  ret = (c.valid /\ EarlierThan(c))

\* C13 witness: at 14:30 with the cutoff 14:30 the answer was false.
C13_Witness ==
  /\ op = "isBeforeCutoff"
  /\ args.cutoffTime = JsString(<<"1", "4", ":", "3", "0">>)
  /\ args.nowHours = 14 /\ args.nowMinutes = 30
  /\ ret = FALSE

\* C14 (as claimed): for a city without a cutoffTime,
\* isSameDayDeliveryAvailable is true at every time of day, and
\* getMinimumDeliveryDate adds no cutoff day.
C14_NoCutoffAlwaysSameDay ==
  /\ (op = "isSameDayDeliveryAvailable" /\ args.city.cutoffTime = JsUndefined)
       => ret = TRUE
  /\ (op = "getMinimumDeliveryDate" /\ args.city.cutoffTime = JsUndefined)
       => CivilOf(ret) = CivilPlus(args.nowDay, args.baseDelay)

\* The cutoff in effect for a city: its own, or 23:59 when it has none.
EffectiveCutoff(city) ==
  IF city.cutoffTime.type = "string" /\ city.cutoffTime.chars # <<>>
  THEN ClockTime(city.cutoffTime)
  ELSE [valid |-> TRUE, hours |-> 23, minutes |-> 59]

\* C15: getTimeUntilCutoff is non-null exactly when
\* isSameDayDeliveryAvailable is true; then hours * 60 + minutes is the
\* cutoff's minute of the day minus now's, with 0 <= minutes <= 59 and at
\* least one minute in all; otherwise it is null.
C15_TimeUntilCutoff ==
  op = "getTimeUntilCutoff"
    => LET c == EffectiveCutoff(args.city)
           left == (c.hours * 60 + c.minutes)
                     - (args.nowHours * 60 + args.nowMinutes)
       IN  /\ (ret # JsNull)
                 <=> isSameDayDeliveryAvailable(args.city, args.currentTime)
           /\ (ret # JsNull)
                 => /\ c.valid
                    /\ ret.hours * 60 + ret.minutes = left
                    /\ ret.hours >= 0
                    /\ ret.minutes \in 0..59
                    /\ left >= 1
           /\ (~c.valid \/ ~EarlierThan(c)) => ret = JsNull

\* C15 witness: at 9:05 with the cutoff 14:30, 5 hours and 25 minutes
\* were left.
C15_Witness ==
  /\ op = "getTimeUntilCutoff"
  /\ args.city.cutoffTime = JsString(<<"1", "4", ":", "3", "0">>)
  /\ args.nowHours = 9 /\ args.nowMinutes = 5
  /\ ret = [type |-> "time", hours |-> 5, minutes |-> 25]

(***************************************************************************)
(* Properties of the slot availability service.                            *)
(***************************************************************************)
\* The place of a canonical date in the calendar, as a number yyyymmdd.
CalendarKey(d) ==
  10000 * DecimalValue(SubSeq(d, 1, 4)) + 100 * DecimalValue(SubSeq(d, 6, 7))
    + DecimalValue(SubSeq(d, 9, 10))

\* The days a rule is meant to cover: startDate..endDate, both included, or
\* startDate alone when it has no endDate.
RuleCovers(rule, date) ==
  IF rule.endDate = <<>>
  THEN date = rule.startDate
  ELSE /\ CalendarKey(rule.startDate) <= CalendarKey(date)
       /\ CalendarKey(date) <= CalendarKey(rule.endDate)

\* The rule applies to the selected city: it names no city, or that city.
RuleInScope(rule, slot, cityId) ==
  /\ rule.timeSlotId = slot.id
  /\ (rule.cityId = NoCity \/ (cityId # NoCity /\ rule.cityId = cityId))

\* The positions of the rules that a check of the date tier, and of the
\* city tier, accepts for the call in progress.
DateTierMatches ==
  { i \in 1..Len(args.rules) :
      /\ args.rules[i].timeSlotId = args.slot.id
      /\ args.rules[i].cityId = NoCity
      /\ isDateInRange(args.date, args.rules[i].startDate, args.rules[i].endDate) }

CityTierMatches ==
  { i \in 1..Len(args.rules) :
      /\ args.cityId # NoCity
      /\ args.rules[i].timeSlotId = args.slot.id
      /\ args.rules[i].cityId = args.cityId
      /\ isDateInRange(args.date, args.rules[i].startDate, args.rules[i].endDate) }

SetMin(S) == CHOOSE m \in S : \A x \in S : m <= x

\* C2 (as claimed): a rule without an endDate covers its startDate only.
\* With that rule alone and the slot active, the slot is disabled on the
\* startDate and available on every later date.
C2_NoEndDateCoversOneDay ==
  ( /\ op = "checkSlotAvailability"
    /\ args.slot.isActive
    /\ Len(args.rules) = 1
    /\ args.rules[1].endDate = <<>>
    /\ RuleInScope(args.rules[1], args.slot, args.cityId) )
    => /\ args.date = args.rules[1].startDate => ret.disabled
       /\ CalendarKey(args.date) > CalendarKey(args.rules[1].startDate)
            => (~ret.disabled /\ ret.reason = <<>>)

\* C3: a slot whose isActive is false is disabled with the inactive reason
\* for every date, every city (none included) and every rule list.
C3_InactiveSlotDisabled ==
  (op = "checkSlotAvailability" /\ ~args.slot.isActive)
    => ret = [slot |-> args.slot, disabled |-> TRUE,
              reason |-> <<"Slot is inactive">>]

\* C3 witness: an inactive slot was checked on a date that a rule with a
\* custom reason covers for it.
C3_Witness ==
  /\ op = "checkSlotAvailability"
  /\ ~args.slot.isActive
  /\ \E i \in 1..Len(args.rules) :
       /\ RuleInScope(args.rules[i], args.slot, args.cityId)
       /\ RuleCovers(args.rules[i], args.date)
       /\ args.rules[i].reason # <<>>
  /\ ret.reason = <<"Slot is inactive">>

\* C4: a rule without a cityId whose range covers the date disables the
\* active slot it names whatever city is selected, none included; a slot
\* that no rule of the list names is not disabled.
C4_DateRuleAllCities ==
  (op = "checkSlotAvailability" /\ args.slot.isActive)
    => /\ (\E i \in 1..Len(args.rules) :
             /\ args.rules[i].timeSlotId = args.slot.id
             /\ args.rules[i].cityId = NoCity
             /\ RuleCovers(args.rules[i], args.date))
            => ret.disabled
       /\ (\A i \in 1..Len(args.rules) :
             args.rules[i].timeSlotId # args.slot.id)
            => (~ret.disabled /\ ret.reason = <<>>)

\* C4 witness: with city 2 selected, a rule without a city disabled the slot
\* on the last day of its range.
C4_Witness ==
  /\ op = "checkSlotAvailability"
  /\ args.slot.isActive
  /\ args.cityId = 2
  /\ Len(args.rules) = 1
  /\ args.rules[1].timeSlotId = args.slot.id
  /\ args.rules[1].cityId = NoCity
  /\ args.rules[1].endDate = args.date
  /\ args.rules[1].startDate # args.date
  /\ ret.disabled

\* C5: a rule of city A that covers the date disables the active slot it
\* names when A is selected; with another city or none selected, and no
\* other rule that a check accepts, the slot is available with no reason.
C5_CityRuleOnlyItsCity ==
  (op = "checkSlotAvailability" /\ args.slot.isActive)
    => \A i \in 1..Len(args.rules) :
         ( /\ args.rules[i].timeSlotId = args.slot.id
           /\ args.rules[i].cityId # NoCity
           /\ RuleCovers(args.rules[i], args.date) )
           => /\ args.cityId = args.rules[i].cityId => ret.disabled
              /\ ( /\ args.cityId # args.rules[i].cityId
                   /\ DateTierMatches = {}
                   /\ CityTierMatches = {} )
                   => (~ret.disabled /\ ret.reason = <<>>)

\* C5 witness: a rule of city 1 covers the date, city 2 is selected, and the
\* slot is available.
C5_Witness ==
  /\ op = "checkSlotAvailability"
  /\ args.slot.isActive
  /\ args.cityId = 2
  /\ Len(args.rules) = 2
  /\ \A i \in 1..2 :
       /\ args.rules[i].timeSlotId = args.slot.id
       /\ args.rules[i].cityId = 1
       /\ RuleCovers(args.rules[i], args.date)
  /\ ~ret.disabled

\* The reason of a rule: its own text when it has one, else the message of
\* its tier.
ReasonOfRule(rule, generic) ==
  IF rule.reason # <<>>
  THEN <<"Disabled: ", rule.reason>>
  ELSE <<generic, args.date>>

\* C6: the reason is that of the first check that accepts, in the order
\* inactive, date tier, city tier, and within a tier that of the first
\* accepted rule of the list: its own text, else the tier's message.
C6_FirstMatchReason ==
  op = "checkSlotAvailability"
    => ret.reason =
         IF ~args.slot.isActive THEN <<"Slot is inactive">>
         ELSE IF DateTierMatches # {}
         THEN ReasonOfRule(args.rules[SetMin(DateTierMatches)], "Disabled on ")
         ELSE IF CityTierMatches # {}
         THEN ReasonOfRule(args.rules[SetMin(CityTierMatches)],
                           "Disabled for this city on ")
         ELSE <<>>

\* C6 witness: a city rule with its own text stands before a date rule
\* without one, both cover the date, and the date tier's message came back.
C6_Witness ==
  /\ op = "checkSlotAvailability"
  /\ args.slot.isActive
  /\ Len(args.rules) = 2
  /\ CityTierMatches = {1}
  /\ args.rules[1].reason # <<>>
  /\ DateTierMatches = {2}
  /\ args.rules[2].reason = <<>>
  /\ ret.reason = <<"Disabled on ", args.date>>

\* The rule list a batch call was given, a missing list being the empty one.
RulesOrEmpty(rules) == IF rules.type = "array" THEN rules.items ELSE <<>>

\* The result of the slot at position i of the list a batch call was given.
ResultOfSlot(i) ==
  checkSlotAvailability(args.slots.items[i], args.date, args.cityId,
                        RulesOrEmpty(args.rules))

\* The positions of the list whose result is not disabled.
EnabledPositions ==
  {i \in 1..Len(args.slots.items) : ~ResultOfSlot(i).disabled}

\* xs is the subsequence of ys at the positions in P, in the order of ys.
RECURSIVE IsSubsequenceAt(_, _, _, _)
IsSubsequenceAt(xs, ys, P, i) ==
  IF i > Len(ys)
  THEN xs = <<>>
  ELSE IF i \in P
  THEN /\ xs # <<>>
       /\ Head(xs) = ys[i]
       /\ IsSubsequenceAt(Tail(xs), ys, P, i + 1)
  ELSE IsSubsequenceAt(xs, ys, P, i + 1)

\* getAvailableSlots: one result per slot, in order, each the slot's result.
BatchResultsAgree ==
  (op = "getAvailableSlots" /\ args.slots.type = "array") =>
    /\ ~exc
    /\ Len(ret) = Len(args.slots.items)
    /\ \A i \in 1..Len(ret) : ret[i] = ResultOfSlot(i)

\* getEnabledSlots: the slots whose result is not disabled, in input order.
EnabledSlotsAgree ==
  (op = "getEnabledSlots" /\ args.slots.type = "array") =>
    /\ ~exc
    /\ IsSubsequenceAt(ret, args.slots.items, EnabledPositions, 1)

\* isSlotAvailable: true exactly when the id is in the list and enabled.
SlotAvailableAgrees ==
  (op = "isSlotAvailable" /\ args.slots.type = "array") =>
    /\ ~exc
    /\ ret = (\E i \in EnabledPositions :
                args.slots.items[i].id = args.slotId)

\* C21 (as claimed): getAvailableSlots returns one result per input slot in
\* input order, each equal to checkSlotAvailability of that slot for the same
\* date, city and rules, a missing rule list counting as the empty one;
\* getEnabledSlots returns the subsequence of the input slots whose result is
\* not disabled; and isSlotAvailable is true exactly when a slot with that id
\* is in the list and its result is not disabled.  The first two hold; the
\* third fails when the rule list is missing and the slot is active.
C21_BatchCallsAgree ==
  /\ BatchResultsAgree
  /\ EnabledSlotsAgree
  /\ SlotAvailableAgrees

(***************************************************************************)
(* Properties of the handle-based slot resolver.                           *)
(***************************************************************************)
\* A rule without a date that names the slot of the call, for all cities or
\* for the selected city.
UndatedRuleApplies(rule) ==
  /\ rule.date.type = "undefined"
  /\ rule.slotId = args.slot.id
  /\ \/ rule.cityId = NoCityHandle
     \/ (args.cityId # NoCityHandle /\ rule.cityId = args.cityId)

\* The handle-based resolver disables a slot exactly for its own flag or for
\* a rule that names the target date itself: a rule without a date never
\* matches.
HandleSlotDisabledByDatedRules ==
  op = "checkSlotAvailability of handles" =>
    (ret.disabled <=>
       \/ args.slot.isGloballyDisabled
       \/ \E i \in 1..Len(args.rules) :
            /\ args.rules[i].slotId = args.slot.id
            /\ args.rules[i].date = JsString(args.date)
            /\ \/ args.rules[i].cityId = NoCityHandle
               \/ (args.cityId # NoCityHandle
                     /\ args.rules[i].cityId = args.cityId))

\* C24 (as claimed): in the handle-based resolver a rule whose date is
\* omitted applies to all dates: checkSlotAvailability reports the slot the
\* rule names disabled for every target date, for all cities when the rule
\* has no cityId and for that city when it has one.
C24_UndatedRuleAllDates ==
  op = "checkSlotAvailability of handles" =>
    \A i \in 1..Len(args.rules) :
      UndatedRuleApplies(args.rules[i]) => ret.disabled

(***************************************************************************)
(* Properties of getAvailableDates.                                        *)
(***************************************************************************)
DigitOf(n) == <<"0", "1", "2", "3", "4", "5", "6", "7", "8", "9">>[n + 1]

TwoDigits(n) == <<DigitOf(n \div 10), DigitOf(n % 10)>>

\* The canonical string YYYY-MM-DD of a civil day.
CivilString(c) ==
  TwoDigits(c.year \div 100) \o TwoDigits(c.year % 100) \o <<"-">>
    \o TwoDigits(c.month) \o <<"-">> \o TwoDigits(c.date)

\* The canonical strings of the days of the window of the call in
\* progress: startDate, startDate + 1, ..., daysToShow of them.
WindowDays ==
  IF args.daysToShow <= 0 THEN <<>>
  ELSE [i \in 1..args.daysToShow |->
          CivilString(CivilPlus(args.startDay, i - 1))]

StrictlyIncreasing(days) ==
  \A i, j \in 1..Len(days) :
    i < j => CalendarKey(days[i]) < CalendarKey(days[j])

FlatList ==
  \A i \in 1..Len(args.disabledDates.items) :
    args.disabledDates.items[i].type = "string"

\* Some entry of the flat list names the day d, in either form.
NamedByEntry(d) ==
  \E i \in 1..Len(args.disabledDates.items) :
    ExpectedNormalizeDate(args.disabledDates.items[i].chars) = JsString(d)

\* C11: with a flat list, getAvailableDates returns the canonical strings
\* of the daysToShow consecutive days from startDate that no entry of the
\* list names, in increasing order without duplicates; an entry in
\* DD/MM/YYYY form disables its day, an entry that is no date disables
\* nothing, and daysToShow <= 0 gives the empty list.
C11_AvailableDatesOfFlatList ==
  (op = "getAvailableDates" /\ FlatList)
    => /\ ret = SelectSeq(WindowDays, LAMBDA d : ~NamedByEntry(d))
       /\ StrictlyIncreasing(ret)
       /\ (args.daysToShow <= 0 => ret = <<>>)

\* C11 witness: three days from 30 December 2024 with the list
\* ["01/01/2025", "2024-12-30x"] gave 30 and 31 December.
C11_Witness ==
  /\ op = "getAvailableDates"
  /\ args.startDay = [year |-> 2024, month |-> 12, date |-> 30]
  /\ args.daysToShow = 3
  /\ args.disabledDates.items =
       << JsString(<<"0", "1", "/", "0", "1", "/", "2", "0", "2", "5">>),
          JsString(<<"2", "0", "2", "4", "-", "1", "2", "-", "3", "0", "x">>) >>
  /\ ret = << <<"2", "0", "2", "4", "-", "1", "2", "-", "3", "0">>,
              <<"2", "0", "2", "4", "-", "1", "2", "-", "3", "1">> >>

RuleList ==
  /\ Len(args.disabledDates.items) > 0
  /\ \A i \in 1..Len(args.disabledDates.items) :
       args.disabledDates.items[i].type = "object"

\* The dates of the rule are dates: the claim speaks of such rules only.
DatedRule(rule) ==
  /\ ExpectedNormalizeDate(rule.startDate.chars) # JsNull
  /\ rule.endDate.type = "string"
       => ExpectedNormalizeDate(rule.endDate.chars) # JsNull

\* The rule applies under the supplied city and its range holds the day d.
RuleExcludes(rule, cityId, d) ==
  /\ rule.cityId = NoCity \/ (cityId # NoCity /\ rule.cityId = cityId)
  /\ LET start == ExpectedNormalizeDate(rule.startDate.chars).chars
     IN  IF rule.endDate.type # "string"
         THEN d = start
         ELSE LET end == ExpectedNormalizeDate(rule.endDate.chars).chars
              IN  /\ CalendarKey(start) <= CalendarKey(d)
                  /\ CalendarKey(d) <= CalendarKey(end)

\* C12: with range rules, a day of the window is left out exactly when a
\* rule without a city, or of the supplied city, has
\* startDate <= day <= endDate (a rule without endDate: day = startDate);
\* rules of other cities leave out nothing, and without a supplied city
\* only the rules without a city count.
C12_AvailableDatesOfRules ==
  ( /\ op = "getAvailableDates"
    /\ RuleList
    /\ \A i \in 1..Len(args.disabledDates.items) :
         DatedRule(args.disabledDates.items[i]) )
    => ret = SelectSeq(WindowDays,
                       LAMBDA d :
                         ~\E i \in 1..Len(args.disabledDates.items) :
                            RuleExcludes(args.disabledDates.items[i],
                                         args.cityId, d))

\* C12 witness: three days from 30 December 2024 under city 1, with a rule
\* of city 2 for 31 December to 1 January and a rule of city 1 for
\* 31 December without an end date, gave 30 December and 1 January.
C12_Witness ==
  /\ op = "getAvailableDates"
  /\ RuleList
  /\ args.startDay = [year |-> 2024, month |-> 12, date |-> 30]
  /\ args.daysToShow = 3
  /\ args.cityId = 1
  /\ Len(args.disabledDates.items) = 2
  /\ args.disabledDates.items[1].cityId = 2
  /\ args.disabledDates.items[1].endDate =
       JsString(<<"2", "0", "2", "5", "-", "0", "1", "-", "0", "1">>)
  /\ args.disabledDates.items[2].cityId = 1
  /\ args.disabledDates.items[2].startDate =
       JsString(<<"2", "0", "2", "4", "-", "1", "2", "-", "3", "1">>)
  /\ args.disabledDates.items[2].endDate = JsUndefined
  /\ ret = << <<"2", "0", "2", "4", "-", "1", "2", "-", "3", "0">>,
              <<"2", "0", "2", "5", "-", "0", "1", "-", "0", "1">> >>

(***************************************************************************)
(* Properties of the checkout validator.                                   *)
(***************************************************************************)
\* The field an error message speaks of: 1 full name, 2 phone number,
\* 3 delivery address, 4 delivery date, 5 delivery time slot.
FieldOfError(message) ==
  IF message = FULL_NAME_REQUIRED THEN 1
  ELSE IF message \in {PHONE_NUMBER_REQUIRED, PHONE_NUMBER_INVALID} THEN 2
  ELSE IF message = DELIVERY_ADDRESS_REQUIRED THEN 3
  ELSE IF message \in {DELIVERY_DATE_REQUIRED, DELIVERY_DATE_INVALID} THEN 4
  ELSE 5

\* C16: validateCheckout returns the errors of the five field validators
\* concatenated in the order full name, phone number, delivery address,
\* delivery date, delivery time slot; each field gives at most one error,
\* which is a function of that field alone, and isValid is true exactly
\* when there is no error.
C16_ErrorsInFieldOrder ==
  op = "validateCheckout"
    => LET fields == args.fields
       IN  /\ ret.errors =
                validateFullName(fields.fullName)
                  \o validatePhoneNumber(fields.phoneNumber)
                  \o validateDeliveryAddress(fields.deliveryAddress)
                  \o validateDeliveryDate(fields.deliveryDate)
                  \o validateDeliveryTimeSlot(fields.deliveryTimeSlot)
           /\ \A i, j \in 1..Len(ret.errors) :
                i < j => FieldOfError(ret.errors[i]) < FieldOfError(ret.errors[j])
           /\ ret.isValid = (ret.errors = <<>>)

\* C16 witness: an empty name, the phone number 123, an address, an empty
\* date and the slot 0 gave four errors, in the order of the fields.
C16_Witness ==
  /\ op = "validateCheckout"
  /\ args.fields.fullName = JsString(<<>>)
  /\ args.fields.phoneNumber = JsString(<<"1", "2", "3">>)
  /\ isNonEmpty(args.fields.deliveryAddress)
  /\ args.fields.deliveryDate = JsString(<<>>)
  /\ args.fields.deliveryTimeSlot = JsNumber(0)
  /\ ret.errors = <<FULL_NAME_REQUIRED, PHONE_NUMBER_INVALID,
                    DELIVERY_DATE_REQUIRED, DELIVERY_TIME_SLOT_REQUIRED>>
  /\ ~ret.isValid

\* The number of digits of a string.
DigitCount(chars) == Cardinality({i \in 1..Len(chars) : chars[i] \in DigitChars})

Blank(v) == v.type # "string" \/ Trimmed(v.chars) = <<>>

\* t has the syntax YYYY-MM-DD.
IsoSyntax(t) ==
  /\ Len(t) = 10 /\ t[5] = "-" /\ t[8] = "-"
  /\ DigitsAt(t, 1, 4) /\ DigitsAt(t, 6, 7) /\ DigitsAt(t, 9, 10)

\* C17 (as claimed): with a non-blank full name, a phone number of at
\* least 7 digits, a non-blank address, a valid YYYY-MM-DD delivery date
\* and a non-empty string as deliveryTimeSlot, validateCheckout returns
\* isValid = true and no error.
C17_StringSlotHandleAccepted ==
  ( /\ op = "validateCheckout"
    /\ ~Blank(args.fields.fullName)
    /\ ~Blank(args.fields.phoneNumber)
    /\ DigitCount(args.fields.phoneNumber.chars) >= 7
    /\ ~Blank(args.fields.deliveryAddress)
    /\ ~Blank(args.fields.deliveryDate)
    /\ ExpectedNormalizeDate(args.fields.deliveryDate.chars)
         = args.fields.deliveryDate
    /\ args.fields.deliveryTimeSlot.type = "string"
    /\ args.fields.deliveryTimeSlot.chars # <<>> )
    => (ret.isValid /\ ret.errors = <<>>)

\* C18: validateDeliveryTimeSlot returns the one error 'required' for a
\* value that is absent, 0, negative or otherwise false, and no error for
\* a positive number.
C18_SlotRequired ==
  op = "validateDeliveryTimeSlot"
    => LET v == args.deliveryTimeSlot
           number == v.type = "number" /\ ~v.nan
       IN  /\ ( \/ v.type \in {"undefined", "null"}
                \/ (v.type = "string" /\ v.chars = <<>>)
                \/ (v.type = "number" /\ v.nan)
                \/ (number /\ v.value <= 0) )
                => ret = <<DELIVERY_TIME_SLOT_REQUIRED>>
           /\ (number /\ v.value > 0) => ret = <<>>

\* C18 witness: the slot -1 gave the error.
C18_Witness ==
  /\ op = "validateDeliveryTimeSlot"
  /\ args.deliveryTimeSlot = JsNumber(0 - 1)
  /\ ret = <<DELIVERY_TIME_SLOT_REQUIRED>>

\* C19: validateDeliveryDate gives only 'required' for a blank input; for
\* a non-blank input it gives no error exactly when the trimmed input has
\* the syntax YYYY-MM-DD and normalizeDate of it is not null, and only
\* 'invalid format' otherwise.
C19_DateCheckOfNormalizeDate ==
  op = "validateDeliveryDate"
    => LET v == args.deliveryDate
       IN  IF Blank(v)
           THEN ret = <<DELIVERY_DATE_REQUIRED>>
           ELSE LET t == Trimmed(v.chars)
                    accepted == /\ IsoSyntax(t)
                                /\ normalizeDate(JsString(t)) # JsNull
                IN  ret = IF accepted THEN <<>> ELSE <<DELIVERY_DATE_INVALID>>

\* C19 witness: ' 2024-02-29 ' was accepted, as normalizeDate accepts it.
C19_Witness ==
  /\ op = "validateDeliveryDate"
  /\ args.deliveryDate =
       JsString(<<" ", "2", "0", "2", "4", "-", "0", "2", "-", "2", "9", " ">>)
  /\ normalizeDate(args.deliveryDate) # JsNull
  /\ ret = <<>>

\* C20: validatePhoneNumber gives only 'required' for a blank value, only
\* 'invalid format' for a non-blank value with fewer than 7 digits, and no
\* error for a non-blank value with 7 digits or more; never both errors.
C20_PhoneNumberErrors ==
  op = "validatePhoneNumber"
    => LET v == args.phoneNumber
       IN  ret = IF Blank(v) THEN <<PHONE_NUMBER_REQUIRED>>
                 ELSE IF DigitCount(v.chars) < 7 THEN <<PHONE_NUMBER_INVALID>>
                 ELSE <<>>

\* C20 witness: 555-1234, of 7 digits, gave no error.
C20_Witness ==
  /\ op = "validatePhoneNumber"
  /\ args.phoneNumber = JsString(<<"5", "5", "5", "-", "1", "2", "3", "4">>)
  /\ ret = <<>>

(***************************************************************************)
(* Properties of the calls on the heap.                                    *)
(***************************************************************************)
\* The value the pure translation of the function returns for the values
\* the references of the call stood for.
ValueOfCall ==
  LET p == args.params
      h == args.before
  IN  IF args.fn = "addDays"
      THEN addDays(h[p.date], p.days)
      ELSE IF args.fn = "getMinimumDeliveryDate"
      THEN getMinimumDeliveryDate(p.city, h[p.currentTime], p.baseDelay)
      ELSE JsArray(getAvailableDates(h[p.startDate], p.daysToShow,
                                     h[p.disabledDates], p.cityId))

\* The two translations of each function return the same value.
HeapAgreesWithValues ==
  op \in {"call", "again"} => heap[ret] = ValueOfCall

\* C22: getAvailableDates, addDays and getMinimumDeliveryDate leave every
\* object their caller holds as it was (the Date arguments and the disable
\* source among them), after one call and after two, and a second call with
\* the same arguments returns a value equal to the first.
C22_InputsKeptResultsRepeat ==
  /\ op \in {"call", "again"} =>
       /\ Len(heap) >= Len(args.before)
       /\ \A r \in 1..Len(args.before) : heap[r] = args.before[r]
  /\ op = "again" =>
       /\ ret \notin 1..Len(args.between)
       /\ heap[ret] = args.first

\* A window that starts in the afternoon was computed twice from the same
\* Date and the same two-entry disable list: a date was left out, the others
\* returned, both times.
C22_Witness ==
  /\ op = "again"
  /\ args.fn = "getAvailableDates"
  /\ args.before[args.params.startDate].minute > 0
  /\ Len(args.before[args.params.disabledDates].items) = 2
  /\ args.before[args.params.disabledDates].items[1].type = "string"
  /\ Len(heap[ret].items) = MaxWindow - 1
  /\ heap[ret] = args.first

(***************************************************************************)
(* Properties of the configuration in the database.                        *)
(***************************************************************************)
\* The step leaves a row with the id of every city row there was.
NoCityRemoved == \A c \in db.cities : \E k \in db'.cities : k.id = c.id

\* After a delete of the list page that answered success, the row of the
\* id is there and inactive.
DeletedCityInactive ==
  (op' = "delete city" /\ ret'.success) =>
    \E k \in db'.cities : k.id = args'.id /\ ~k.isActive

\* loadCities and getCityById return only rows of the shop that are active.
OnlyActiveCitiesLoaded ==
  /\ op' = "loadCities" =>
       \A i \in 1..Len(ret'.cities) :
         \E k \in db'.cities :
           /\ k.id = ret'.cities[i].id
           /\ k.shop = args'.shop
           /\ k.isActive
  /\ (op' = "getCityById" /\ ret' # JsNull) =>
       \E k \in db'.cities :
         k.id = ret'.id /\ k.shop = args'.shop /\ k.isActive

\* A step that keeps to soft deletion.
SoftDeleteStep ==
  NoCityRemoved /\ DeletedCityInactive /\ OnlyActiveCitiesLoaded

\* What does hold: the list page by itself deletes softly.
CityListSoftDeletes == [][SoftDeleteStep]_vars

\* C25 (as claimed): cities are soft-deleted: after a successful delete the
\* row is still there with isActive false, no action ever removes a city
\* row, and an inactive city is in no result of loadCities or getCityById.
\* The delete of the page of one city removes the row.
C25_CitiesSoftDeleted == [][SoftDeleteStep]_vars

\* The step is a call of the update function for a row of another shop.
UpdatesCityOfOtherShop ==
  /\ op' = "updateCity"
  /\ \E c \in db.cities : c.id = args'.cityId /\ c.shop # args'.shop

UpdatesSlotOfOtherShop ==
  /\ op' = "updateTimeSlot"
  /\ \E s \in db.timeSlots : s.id = args'.slotId /\ s.shop # args'.shop

\* What does hold: the call for a row of another shop returns null.
OtherShopGetsNull ==
  [][(UpdatesCityOfOtherShop \/ UpdatesSlotOfOtherShop) =>
       (~exc' /\ ret' = JsNull)]_vars

\* C28 (as claimed): updateCity for a city of another shop returns null and
\* leaves the stored row as it was, and so does updateTimeSlot for a time
\* slot.  The row is written before the shop is compared.
C28_OtherShopUnchanged ==
  [][/\ UpdatesCityOfOtherShop =>
          (~exc' /\ ret' = JsNull /\ db'.cities = db.cities)
     /\ UpdatesSlotOfOtherShop =>
          (~exc' /\ ret' = JsNull /\ db'.timeSlots = db.timeSlots)]_vars

\* No two active cities of one shop have names equal ignoring case.
ActiveNamesDistinct(d) ==
  \A a, b \in d.cities :
    (a.id # b.id /\ a.shop = b.shop /\ a.isActive /\ b.isActive) =>
      ToLowerCase(a.name) # ToLowerCase(b.name)

\* The name of a create request, trimmed, is the name of an active city of
\* its shop, ignoring case.
NameTaken(d, request) ==
  \E c \in d.cities :
    /\ c.shop = request.shop
    /\ c.isActive
    /\ ToLowerCase(c.name) = ToLowerCase(Trimmed(request.name))

\* What does hold: a create is refused when the name is taken at the time
\* of its check.
CreateRefusedAtCheck ==
  [][(op' = "create city checked" \/ (op' = "create city" /\ ~ret'.success))
       => (NameTaken(db, args') <=> op' = "create city")]_vars

\* C29 (as claimed): after any sequence of create, update and delete
\* actions of the list page, creates whose check and insert interleave
\* among them, no two active cities of a shop have names equal ignoring
\* case, and a create whose trimmed name is taken answers success = false
\* and adds no city.  Two creates that both pass the check both insert, and
\* update compares no names.
C29_ActiveNamesUnique ==
  [][/\ ActiveNamesDistinct(db')
     /\ (op' \in {"create city", "create city checked"}
           /\ NameTaken(db, args')) =>
          (op' = "create city" /\ ~ret'.success /\ db' = db)]_vars

(***************************************************************************)
(* Properties of the dates the delivery test route offers.                 *)
(***************************************************************************)
\* The cutoff in effect for the city is a time of day and now's
\* (hour, minute) is not before it.
CutoffPassed ==
  LET c == EffectiveCutoff(args.city)
  IN  c.valid /\ ~EarlierThan(c)

\* The first day a delivery may be made on: now's civil date plus the cart
\* delay, and one day more once the cutoff has passed.
EarliestLegalDay ==
  CivilPlus(args.nowDay,
            CartMaxDelay(args.products) + (IF CutoffPassed THEN 1 ELSE 0))

\* The canonical strings of the n days from the minimum delivery date.
DaysFromMinimum ==
  LET minimum == getMinimumDeliveryDate(args.city, args.currentTime,
                                        calculateCartDelay(args.products).value)
  IN  { CivilString(CivilPlus(CivilOf(minimum), k)) :
          k \in 0..(args.daysToShow - 1) }

\* The disable source disables the day d: an entry of the flat list names
\* it, or the range of a rule for all cities holds it.
DisabledBySource(d) ==
  \/ FlatList /\ NamedByEntry(d)
  \/ /\ RuleList
     /\ \E i \in 1..Len(args.disabledDates.items) :
          /\ DatedRule(args.disabledDates.items[i])
          /\ RuleExcludes(args.disabledDates.items[i], NoCity, d)

\* C26: for every city, instant, cart and disable source, each date of
\* getAvailableDates(getMinimumDeliveryDate(city, now,
\* calculateCartDelay(cart)), n, disabled) is on or after now's civil date
\* plus the cart delay (one day more once the cutoff has passed), is one of
\* the n days from that minimum, and is not a disabled date.
C26_PipelineDatesLegal ==
  (op = "availableDates of the route" /\ args.city.type = "object")
    => LET earliest == CalendarKey(CivilString(EarliestLegalDay))
           days == DaysFromMinimum
       IN  \A i \in 1..Len(ret) :
             /\ CalendarKey(ret[i]) >= earliest
             /\ ret[i] \in days
             /\ ~DisabledBySource(ret[i])

\* C26 witness: at 14:30 on 31 December 2024 in a city with the cutoff
\* 14:30, a cart without a delay and the list ["01/01/2025"], three days
\* gave 2 and 3 January 2025: not 31 December, and not the disabled
\* 1 January.
C26_Witness ==
  /\ op = "availableDates of the route"
  /\ args.city.type = "object"
  /\ args.city.cutoffTime = JsString(<<"1", "4", ":", "3", "0">>)
  /\ args.nowDay = [year |-> 2024, month |-> 12, date |-> 31]
  /\ args.nowHours = 14 /\ args.nowMinutes = 30
  /\ CartMaxDelay(args.products) = 0
  /\ args.daysToShow = 3
  /\ args.disabledDates =
       JsArray(<<JsString(<<"0", "1", "/", "0", "1", "/", "2", "0", "2", "5">>)>>)
  /\ CutoffPassed
  /\ ret = << <<"2", "0", "2", "5", "-", "0", "1", "-", "0", "2">>,
              <<"2", "0", "2", "5", "-", "0", "1", "-", "0", "3">> >>

(***************************************************************************)
(* Properties of the two range tests of the date service.                  *)
(***************************************************************************)
\* The set buildDisabledDateSet makes of the one rule of the call in
\* progress, a rule for all cities.
SetOfTheRule ==
  buildDisabledDateSet(<<[type |-> "object",
                          startDate |-> JsString(args.startDate),
                          endDate |-> args.endDate,
                          cityId |-> NoCity]>>,
                       NoCity)

\* With an endDate the two tests agree, an endDate before startDate
\* included: then neither holds any date.
RangeTestsAgreeWithEndDate ==
  (op = "isDateInDisableRange" /\ args.endDate.type = "string")
    => /\ ret <=> (args.date \in SetOfTheRule)
       /\ StringLess(args.endDate.chars, args.startDate)
            => (~ret /\ SetOfTheRule = {})

\* Without an endDate the set holds startDate alone, and the range test
\* holds every date from startDate on.
RangeTestsWithoutEndDate ==
  (op = "isDateInDisableRange" /\ args.endDate.type = "undefined")
    => /\ SetOfTheRule = {args.startDate}
       /\ ret <=> ~StringLess(args.date, args.startDate)

\* C27 (as claimed): for all canonical dates d and startDate and every
\* optional endDate, isDateInDisableRange(d, startDate, endDate) is true
\* exactly when d is in buildDisabledDateSet([{startDate, endDate}]), with
\* endDate absent and with endDate earlier than startDate too.
C27_RangeTestsAgree ==
  op = "isDateInDisableRange" => (ret <=> (args.date \in SetOfTheRule))

(***************************************************************************)
(* Properties of the round trips of the date service.                      *)
(***************************************************************************)
\* The string is the canonical form of a day of the calendar.
ValidCanonical(s) == ExpectedNormalizeDate(s) = JsString(s)

\* From the year 1000 on the two conversions undo each other.
RoundTripsFromYear1000 ==
  /\ ( /\ op = "formatDateToString of parseDate"
       /\ ValidCanonical(args.dateStr)
       /\ DecimalValue(SubSeq(args.dateStr, 1, 4)) >= 1000 )
       => (~exc /\ ret = args.dateStr)
  /\ (op = "parseDate of formatDateToString" /\ args.day.year >= 1000)
       => (ret.type = "date" /\ CivilOf(ret.date) = args.day)

\* Below the year 1000 neither round trip comes back: parseDate gives null
\* for the years 0000 to 0099, formatDateToString writes the years 100 to
\* 999 with three digits, and parseDate gives null for a year of fewer than
\* four digits.
RoundTripsBelowYear1000 ==
  /\ ( /\ op = "formatDateToString of parseDate"
       /\ ValidCanonical(args.dateStr)
       /\ DecimalValue(SubSeq(args.dateStr, 1, 4)) < 1000 )
       => (exc \/ ret = Drop(args.dateStr, 1))
  /\ (op = "parseDate of formatDateToString" /\ args.day.year < 1000)
       => ret = JsNull

\* addDays(addDays(d, n), -n) is d, its time of day included.
AddDaysUndone ==
  op = "addDays and back" => (~exc /\ ret = args.date)

\* C30 (as claimed): for every valid YYYY-MM-DD string s,
\* formatDateToString(parseDate(s)) = s; for every Date d of local
\* midnight, parseDate(formatDateToString(d)) is d's civil day; and
\* addDays(addDays(d, n), -n) = d.
C30_RoundTrips ==
  /\ (op = "formatDateToString of parseDate" /\ ValidCanonical(args.dateStr))
       => (~exc /\ ret = args.dateStr)
  /\ op = "parseDate of formatDateToString"
       => (ret.type = "date" /\ CivilOf(ret.date) = args.day)
  /\ op = "addDays and back" => (~exc /\ ret = args.date)

Next ==
  \/ NextCart \/ NextDate \/ NextWindow \/ NextCutoff \/ NextSlot
  \/ NextCheckout \/ NextHeap \/ NextHandleSlot \/ NextConfigService
  \/ NextCityPages \/ NextRoute \/ NextRange \/ NextRoundTrip

Spec == Init /\ [][Next]_vars
====
